---- MODULE Spec2Model ----
(***************************************************************************)
(* Line Break Cleaner (Figma plugin): the control surface, the batch       *)
(* processor, the font manager, the text analyzer and the text processor   *)
(* of src/code.ts.                                                         *)
(*                                                                         *)
(* Texts are sequences of UTF-16 code units.  Widths are kept exact by     *)
(* scaling: a width is counted in thousandths of a pixel (font size x      *)
(* multiplier in percent x weight in tenths), a threshold in percent.      *)
(***************************************************************************)
EXTENDS Integers, Sequences, FiniteSets, TLC

\* ------------------------------------------------------------ characters
LF == 10
SP == 32
LSEP == 8232
HiraganaA == 12354
LatinA == 97

\* String.prototype.trim and the regex class \s: ECMAScript WhiteSpace and
\* LineTerminator code units.
IsWhitespace(c) ==
  \/ c \in {9, 10, 11, 12, 13, 32, 160, 5760, 8232, 8233, 8239, 8287, 12288, 65279}
  \/ (c >= 8192 /\ c <= 8202)

IsFullWidthCharacter(c) ==
  \/ (c >= 12352 /\ c <= 12447)
  \/ (c >= 12448 /\ c <= 12543)
  \/ (c >= 19968 /\ c <= 40879)
  \/ (c >= 13312 /\ c <= 19903)
  \/ (c >= 65280 /\ c <= 65519)
  \/ (c >= 12288 /\ c <= 12351)

IsHalfWidthCharacter(c) ==
  \/ (c >= 32 /\ c <= 126)
  \/ (c >= 65377 /\ c <= 65439)

IsJapanese(c) ==
  \/ (c >= 12352 /\ c <= 12447)
  \/ (c >= 12448 /\ c <= 12543)
  \/ (c >= 19968 /\ c <= 40879)
  \/ (c >= 13312 /\ c <= 19903)

\* the class [。．！？] of the sentence-end test
IsSentenceEnd(c) == c \in {12290, 65294, 65281, 65311}

\* ------------------------------------------------------------ strings
RECURSIVE TrimStart(_)
TrimStart(s) ==
  IF s = <<>> THEN <<>>
  ELSE IF IsWhitespace(Head(s)) THEN TrimStart(Tail(s)) ELSE s

RECURSIVE TrimEnd(_)
TrimEnd(s) ==
  IF s = <<>> THEN <<>>
  ELSE IF IsWhitespace(s[Len(s)]) THEN TrimEnd(SubSeq(s, 1, Len(s) - 1)) ELSE s

Trim(s) == TrimEnd(TrimStart(s))

Contains(s, c) == \E i \in 1..Len(s) : s[i] = c

RECURSIVE JoinWith(_, _)
JoinWith(parts, sep) ==
  IF parts = <<>> THEN <<>>
  ELSE IF Len(parts) = 1 THEN parts[1]
  ELSE parts[1] \o sep \o JoinWith(Tail(parts), sep)

RECURSIVE SplitAcc(_, _, _, _)
SplitAcc(text, cls, cur, i) ==
  IF i > Len(text) THEN <<cur>>
  ELSE IF text[i] \in cls THEN <<cur>> \o SplitAcc(text, cls, <<>>, i + 1)
  ELSE SplitAcc(text, cls, Append(cur, text[i]), i + 1)

\* text.split(breakPattern) for a character-class pattern
SplitByClass(text, cls) == SplitAcc(text, cls, <<>>, 1)

\* the characters the class `[` + escaped break strings joined + `]` matches
RECURSIVE CharsOf(_)
CharsOf(strs) ==
  IF strs = <<>> THEN {}
  ELSE {Head(strs)[i] : i \in 1..Len(Head(strs))} \cup CharsOf(Tail(strs))

RECURSIVE Flatten(_)
Flatten(strs) == IF strs = <<>> THEN <<>> ELSE Head(strs) \o Flatten(Tail(strs))

Hyphen == 45

\* the atoms of the class `[` + '\n' and the escaped break strings joined +
\* `]`: every metacharacter is escaped and stands for itself, '-' is not
ClassAtoms(cfg) == <<LF>> \o Flatten(cfg.softBreakChars)

\* the characters the class matches from atom i on: an atom, '-' and an atom
\* are a range
RECURSIVE ClassOf(_, _)
ClassOf(atoms, i) ==
  IF i > Len(atoms) THEN {}
  ELSE IF i + 2 <= Len(atoms) /\ atoms[i + 1] = Hyphen
  THEN (atoms[i]..atoms[i + 2]) \cup ClassOf(atoms, i + 3)
  ELSE {atoms[i]} \cup ClassOf(atoms, i + 1)

\* new RegExp throws a SyntaxError for a range out of order
RECURSIVE ClassThrows(_, _)
ClassThrows(atoms, i) ==
  IF i + 2 > Len(atoms) THEN FALSE
  ELSE IF atoms[i + 1] = Hyphen
  THEN atoms[i] > atoms[i + 2] \/ ClassThrows(atoms, i + 3)
  ELSE ClassThrows(atoms, i + 1)

\* the characters the break pattern matches
BreakClass(cfg) == ClassOf(ClassAtoms(cfg), 1)

\* paragraph.split(/(\s+)/): words and the whitespace runs between them
RECURSIVE WordsAcc(_, _, _, _)
WordsAcc(s, cur, inWs, i) ==
  IF i > Len(s) THEN (IF inWs THEN <<cur, <<>>>> ELSE <<cur>>)
  ELSE IF IsWhitespace(s[i]) = inWs THEN WordsAcc(s, Append(cur, s[i]), inWs, i + 1)
  ELSE <<cur>> \o WordsAcc(s, <<s[i]>>, ~inWs, i + 1)

SplitWords(s) == WordsAcc(s, <<>>, FALSE, 1)

\* ------------------------------------------------------------ widths
CharWeight_AllFull(c) == 10

CharWeight(c) ==
  IF IsFullWidthCharacter(c) THEN 10
  ELSE IF IsHalfWidthCharacter(c) THEN 5
  ELSE 8

BaseMultiplier(cfg) ==
  IF cfg.fontWidthMultiplier = 0 THEN 100 ELSE cfg.fontWidthMultiplier

RECURSIVE EstimateTextWidth(_, _, _)
EstimateTextWidth(cfg, text, fontSize) ==
  IF text = <<>> THEN 0
  ELSE fontSize * BaseMultiplier(cfg) * CharWeight(Head(text))
       + EstimateTextWidth(cfg, Tail(text), fontSize)

FitsWidth_Always(cfg, text, fontSize, containerWidth) == TRUE

\* estimatedWidth <= containerWidth
FitsWidth(cfg, text, fontSize, containerWidth) ==
  EstimateTextWidth(cfg, text, fontSize) <= containerWidth * 1000

RatioAtLeastThreshold_Strict(cfg, text, fontSize, containerWidth) ==
  EstimateTextWidth(cfg, text, fontSize) * 100
    > cfg.lineBreakThreshold * containerWidth * 1000

\* estimatedWidth / containerWidth >= lineBreakThreshold
RatioAtLeastThreshold(cfg, text, fontSize, containerWidth) ==
  EstimateTextWidth(cfg, text, fontSize) * 100
    >= cfg.lineBreakThreshold * containerWidth * 1000

\* ------------------------------------------------------------ TextAnalyzer
\* visual lines of one paragraph: greedy accumulation of its tokens
RECURSIVE WrapWords(_, _, _, _, _)
WrapWords(cfg, words, currentLine, containerWidth, fontSize) ==
  IF words = <<>> THEN (IF currentLine # <<>> THEN <<currentLine>> ELSE <<>>)
  ELSE LET testLine == currentLine \o Head(words)
       IN IF FitsWidth(cfg, testLine, fontSize, containerWidth) \/ currentLine = <<>>
          THEN WrapWords(cfg, Tail(words), testLine, containerWidth, fontSize)
          ELSE <<currentLine>>
               \o WrapWords(cfg, Tail(words), Head(words), containerWidth, fontSize)

RECURSIVE WrapParagraphs(_, _, _, _)
WrapParagraphs(cfg, paragraphs, containerWidth, fontSize) ==
  IF paragraphs = <<>> THEN <<>>
  ELSE (IF Trim(Head(paragraphs)) = <<>>
        THEN << <<>> >>
        ELSE WrapWords(cfg, SplitWords(Head(paragraphs)), <<>>, containerWidth, fontSize))
       \o WrapParagraphs(cfg, Tail(paragraphs), containerWidth, fontSize)

SimulateWordWrap_Trimmed(cfg, text, containerWidth, fontSize) ==
  LET paragraphs == SplitByClass(text, BreakClass(cfg))
  IN WrapParagraphs(cfg, [k \in 1..Len(paragraphs) |-> Trim(paragraphs[k])],
                    containerWidth, fontSize)

SimulateWordWrap(cfg, text, containerWidth, fontSize) ==
  WrapParagraphs(cfg, SplitByClass(text, BreakClass(cfg)), containerWidth, fontSize)

RECURSIVE SelectIndices(_, _, _)
\* the 1-based indices i >= from of lines with Test(lines[i]), in order
SelectIndices(flags, from, acc) ==
  IF from > Len(flags) THEN acc
  ELSE SelectIndices(flags, from + 1, IF flags[from] THEN Append(acc, from) ELSE acc)

FindEdgeBreakingLines(cfg, text, containerWidth, fontSize) ==
  LET lines == SimulateWordWrap(cfg, text, containerWidth, fontSize)
      flags == [i \in 1..Len(lines) |->
                  /\ Len(Trim(lines[i])) > 0
                  /\ RatioAtLeastThreshold(cfg, Trim(lines[i]), fontSize, containerWidth)]
  IN SelectIndices(flags, 1, <<>>)

\* pat occurs in text at position i
MatchesAt(text, pat, i) ==
  /\ i + Len(pat) - 1 <= Len(text)
  /\ SubSeq(text, i, i + Len(pat) - 1) = pat

\* (text.match(regex) || []).length for the escaped, hence literal, pattern
\* pat: the matches found from position i on, left to right, not overlapping
RECURSIVE CountLiteral(_, _, _)
CountLiteral(text, pat, i) ==
  IF pat = <<>> THEN Len(text) + 1
  ELSE IF i > Len(text) THEN 0
  ELSE IF MatchesAt(text, pat, i) THEN 1 + CountLiteral(text, pat, i + Len(pat))
  ELSE CountLiteral(text, pat, i + 1)

RECURSIVE CountSoftBreaksOf(_, _)
CountSoftBreaksOf(text, chars) ==
  IF chars = <<>> THEN 0
  ELSE CountLiteral(text, Head(chars), 1) + CountSoftBreaksOf(text, Tail(chars))

CountSoftBreaks(cfg, text) == CountSoftBreaksOf(text, cfg.softBreakChars)

GetLineNumbers(cfg, text) ==
  LET n == Len(SplitByClass(text, BreakClass(cfg)))
  IN [i \in 1..(n - 1) |-> i]

GetSoftBreakLines(cfg, text) ==
  LET lines == SplitByClass(text, BreakClass(cfg))
      flags == [i \in 1..Len(lines) |->
                  \E k \in 1..Len(cfg.softBreakChars) :
                     /\ Len(cfg.softBreakChars[k]) = 1
                     /\ Contains(lines[i], cfg.softBreakChars[k][1])]
  IN SelectIndices(flags, 1, <<>>)

Issue(type, confidence, lineNumbers) ==
  [type |-> type, confidence |-> confidence, lineNumbers |-> lineNumbers]

DetectAutoWidthIssues(cfg, nd) ==
  IF /\ nd.textAutoResize \in {"NONE", "HEIGHT", "WIDTH_AND_HEIGHT"}
     /\ Contains(nd.characters, LF)
  THEN << Issue("auto-width", 90, GetLineNumbers(cfg, nd.characters)) >>
  ELSE <<>>

DetectEdgeBreaking_AnyMode(cfg, nd) ==
  IF Len(FindEdgeBreakingLines(cfg, nd.characters, nd.width, nd.fontSize)) > 0
  THEN << Issue("edge-breaking", 70,
                FindEdgeBreakingLines(cfg, nd.characters, nd.width, nd.fontSize)) >>
  ELSE <<>>

DetectEdgeBreaking(cfg, nd) ==
  IF nd.textAutoResize \in {"NONE", "HEIGHT"}
  THEN LET suspiciousLines ==
             FindEdgeBreakingLines(cfg, nd.characters, nd.width, nd.fontSize)
       IN IF Len(suspiciousLines) > 0
          THEN << Issue("edge-breaking", 70, suspiciousLines) >>
          ELSE <<>>
  ELSE <<>>

DetectSoftBreaks(cfg, nd) ==
  IF nd.paragraphSpacing = 0 /\ CountSoftBreaks(cfg, nd.characters) > 0
  THEN << Issue("soft-break", 80, GetSoftBreakLines(cfg, nd.characters)) >>
  ELSE <<>>

AnalysisResult(id, issues, estimatedChanges, originalText) ==
  [node |-> id, issues |-> issues, estimatedChanges |-> estimatedChanges,
   originalText |-> originalText]

\* reading a property of a node that was removed from the document throws
NodeReadable(nd) == ~nd.removed

SkipsMissingFont_Never(nd) == FALSE

\* analyzeTextNode skips a node whose font is missing
SkipsMissingFont(nd) == nd.hasMissingFont

\* analyzeTextNode throws when a property of the node cannot be read, and when
\* the configuration of the command carries no enabledDetections list
AnalyzeThrows(cfg, nd) ==
  \/ ~NodeReadable(nd)
  \/ /\ ~SkipsMissingFont(nd) /\ ~nd.locked /\ nd.visible
     /\ Len(nd.characters) >= cfg.minCharacters
     /\ ~cfg.hasDetections

AnalyzeTextNode_NoSkip(cfg, id, nd) ==
  AnalysisResult(id,
                 DetectAutoWidthIssues(cfg, nd) \o DetectEdgeBreaking(cfg, nd)
                   \o DetectSoftBreaks(cfg, nd),
                 "changes", nd.characters)

AnalyzeTextNode(cfg, id, nd) ==
  IF SkipsMissingFont(nd)
  THEN AnalysisResult(id, <<>>, "Skipped (missing font)", nd.characters)
  ELSE IF nd.locked \/ ~nd.visible
  THEN AnalysisResult(id, <<>>, "Skipped (locked or hidden)", nd.characters)
  ELSE IF Len(nd.characters) < cfg.minCharacters
  THEN AnalysisResult(id, <<>>, "Skipped (too short)", nd.characters)
  ELSE LET issues ==
             (IF "auto-width" \in cfg.enabledDetections
              THEN DetectAutoWidthIssues(cfg, nd) ELSE <<>>)
             \o (IF "edge-breaking" \in cfg.enabledDetections
                 THEN DetectEdgeBreaking(cfg, nd) ELSE <<>>)
             \o (IF "soft-break" \in cfg.enabledDetections
                 THEN DetectSoftBreaks(cfg, nd) ELSE <<>>)
       IN AnalysisResult(id, issues,
                         IF issues = <<>> THEN "No changes needed" ELSE "changes",
                         nd.characters)

\* ------------------------------------------------------------ TextProcessor
CombineLines(line1, line2) ==
  LET trimmed1 == TrimEnd(line1)
      trimmed2 == TrimStart(line2)
  IN IF trimmed1 = <<>> \/ trimmed2 = <<>> THEN trimmed1 \o trimmed2
     ELSE IF IsJapanese(trimmed1[Len(trimmed1)]) /\ IsJapanese(trimmed2[1])
          THEN trimmed1 \o trimmed2
          ELSE trimmed1 \o <<SP>> \o trimmed2

ShouldBreakAfter(cfg, lines, i, containerWidth, fontSize) ==
  LET currentTrimmed == Trim(lines[i])
  IN IF i = Len(lines) THEN TRUE
     ELSE IF currentTrimmed # <<>> /\ IsSentenceEnd(currentTrimmed[Len(currentTrimmed)])
     THEN TRUE
     ELSE ~RatioAtLeastThreshold(cfg, currentTrimmed, fontSize, containerWidth)

RECURSIVE CombineFold(_, _, _, _, _, _, _)
CombineFold(cfg, lines, i, currentCombined, result, containerWidth, fontSize) ==
  IF i > Len(lines) THEN result
  ELSE LET combined == IF currentCombined = <<>> THEN lines[i]
                       ELSE CombineLines(currentCombined, lines[i])
       IN IF ShouldBreakAfter(cfg, lines, i, containerWidth, fontSize)
          THEN CombineFold(cfg, lines, i + 1, <<>>, Append(result, combined),
                           containerWidth, fontSize)
          ELSE CombineFold(cfg, lines, i + 1, combined, result,
                           containerWidth, fontSize)

RemoveLineBreaksJapanesePriority(cfg, text, containerWidth, fontSize, ignoreMinCharacters) ==
  IF ~ignoreMinCharacters /\ Len(text) < cfg.minCharacters THEN text
  ELSE JoinWith(CombineFold(cfg, SplitByClass(text, BreakClass(cfg)), 1, <<>>, <<>>,
                            containerWidth, fontSize),
                <<LF>>)

\* the characters with a meaning of their own in a regular expression source
RegExpMeta == {36, 40, 41, 42, 43, 46, 63, 91, 92, 93, 94, 123, 124, 125}

\* the characters the pattern . does not match
LineTerminators == {10, 13, 8232, 8233}

\* what new RegExp(source, 'g') matches, for a source without metacharacters
\* or of one character: ( ) * + ? [ \ alone are a SyntaxError, ] { } alone
\* match themselves, | alone matches the empty string at every position
RegExpKind(source) ==
  CASE source = <<>> -> "empty"
    [] source # <<>> /\ (\A i \in 1..Len(source) : source[i] \notin RegExpMeta) -> "literal"
    [] Len(source) = 1 /\ source[1] \in {93, 123, 125} -> "literal"
    [] Len(source) = 1 /\ source[1] = 46 -> "any"
    [] Len(source) = 1 /\ source[1] = 36 -> "end"
    [] Len(source) = 1 /\ source[1] = 94 -> "start"
    [] Len(source) = 1 /\ source[1] = 124 -> "empty"
    [] Len(source) = 1 /\ source[1] \in {40, 41, 42, 43, 63, 91, 92} -> "invalid"

RECURSIVE ReplaceLiteral(_, _, _)
ReplaceLiteral(text, pat, i) ==
  IF i > Len(text) THEN <<>>
  ELSE IF MatchesAt(text, pat, i) THEN <<LF>> \o ReplaceLiteral(text, pat, i + Len(pat))
  ELSE <<text[i]>> \o ReplaceLiteral(text, pat, i + 1)

RECURSIVE ReplaceEmpty(_)
ReplaceEmpty(text) ==
  IF text = <<>> THEN <<LF>>
  ELSE <<LF, Head(text)>> \o ReplaceEmpty(Tail(text))

\* text.replace(new RegExp(source, 'g'), '\n') for a source that compiles
ReplaceAll(text, source) ==
  LET kind == RegExpKind(source)
  IN CASE kind = "literal" -> ReplaceLiteral(text, source, 1)
       [] kind = "any" -> [i \in 1..Len(text) |->
                             IF text[i] \in LineTerminators THEN text[i] ELSE LF]
       [] kind = "end" -> text \o <<LF>>
       [] kind = "start" -> <<LF>> \o text
       [] kind = "empty" -> ReplaceEmpty(text)

RECURSIVE ConvertEach(_, _)
ConvertEach(text, chars) ==
  IF chars = <<>> THEN text
  ELSE ConvertEach(ReplaceAll(text, Head(chars)), Tail(chars))

\* new RegExp throws a SyntaxError for one of the configured strings
ConvertThrows(cfg) ==
  \E k \in 1..Len(cfg.softBreakChars) : RegExpKind(cfg.softBreakChars[k]) = "invalid"

ConvertSoftBreaksToHard(cfg, text) == ConvertEach(text, cfg.softBreakChars)

\* issues.sort((a, b) => b.confidence - a.confidence): stable, descending
RECURSIVE InsertByConfidence(_, _)
InsertByConfidence(sorted, issue) ==
  IF sorted = <<>> THEN <<issue>>
  ELSE IF Head(sorted).confidence >= issue.confidence
       THEN <<Head(sorted)>> \o InsertByConfidence(Tail(sorted), issue)
       ELSE <<issue>> \o sorted

SortIssues_Unsorted(issues) == issues

RECURSIVE SortIssues(_)
SortIssues(issues) ==
  IF issues = <<>> THEN <<>>
  ELSE InsertByConfidence(SortIssues(SubSeq(issues, 1, Len(issues) - 1)),
                          issues[Len(issues)])

Changes(hasResize, newAutoResize, hasText, newText) ==
  [hasResize |-> hasResize, newAutoResize |-> newAutoResize,
   hasText |-> hasText, newText |-> newText]

NoChanges == Changes(FALSE, "", FALSE, <<>>)

RECURSIVE ApplyIssues(_, _, _, _)
\* the loop over the sorted issues: <<processedText, newAutoResize set>>
ApplyIssues(cfg, issues, acc, nd) ==
  IF issues = <<>> THEN acc
  ELSE LET issue == Head(issues)
           next ==
             IF issue.type = "auto-width"
             THEN [text |-> RemoveLineBreaksJapanesePriority(cfg, acc.text, nd.width,
                                                             nd.fontSize, FALSE),
                   resize |-> TRUE]
             ELSE IF issue.type = "edge-breaking"
             THEN [text |-> RemoveLineBreaksJapanesePriority(cfg, acc.text, nd.width,
                                                             nd.fontSize, FALSE),
                   resize |-> acc.resize]
             ELSE IF issue.type = "soft-break"
             THEN [text |-> ConvertSoftBreaksToHard(cfg, acc.text), resize |-> acc.resize]
             ELSE acc
       IN ApplyIssues(cfg, Tail(issues), next, nd)

GenerateChanges_IssuesOnly(cfg, originalText, issues, nd) ==
  LET out == ApplyIssues(cfg, SortIssues(issues),
                         [text |-> originalText, resize |-> FALSE], nd)
  IN Changes(out.resize, IF out.resize THEN "HEIGHT" ELSE "",
             out.text # originalText, IF out.text # originalText THEN out.text ELSE <<>>)

GenerateChanges(cfg, originalText, issues, nd) ==
  LET out == IF nd.textAutoResize = "WIDTH_AND_HEIGHT"
             THEN [text |-> RemoveLineBreaksJapanesePriority(cfg, originalText, nd.width,
                                                             nd.fontSize, FALSE),
                   resize |-> TRUE]
             ELSE ApplyIssues(cfg, SortIssues(issues),
                              [text |-> originalText, resize |-> FALSE], nd)
  IN Changes(out.resize, IF out.resize THEN "HEIGHT" ELSE "",
             out.text # originalText, IF out.text # originalText THEN out.text ELSE <<>>)


\* ------------------------------------------------------------ bounds
\* batch commands (scan, apply-all, apply-selected) accepted in one run
MaxTasks == 2
\* host events that go wrong in one run: a node removed by the user, a font
\* that fails to load, a progress message that cannot be posted
MaxFaults == 1

\* ------------------------------------------------------------ the document
Font(family, style) == [family |-> family, style |-> style]

TextNode(characters, textAutoResize, fonts, hasMissingFont) ==
  [characters |-> characters, textAutoResize |-> textAutoResize,
   width |-> 64, fontSize |-> 16, paragraphSpacing |-> 0,
   fonts |-> fonts, hasMissingFont |-> hasMissingFont,
   locked |-> FALSE, visible |-> TRUE, removed |-> FALSE]

WideThenWide == <<HiraganaA, HiraganaA, HiraganaA, HiraganaA, LF, HiraganaA, HiraganaA>>
WideThenLatin == <<HiraganaA, HiraganaA, HiraganaA, HiraganaA, LF, LatinA, LatinA>>

\* the page: an auto-width block, a mixed-style auto-height block and a block
\* whose font is missing
InitialDocument ==
  << TextNode(WideThenWide, "WIDTH_AND_HEIGHT", <<Font("Inter-Semi", "Bold")>>, FALSE),
     TextNode(WideThenLatin, "HEIGHT",
              <<Font("Inter", "Regular"), Font("Inter", "Semi-Bold")>>, FALSE),
     TextNode(WideThenWide, "HEIGHT", <<Font("Inter", "Regular")>>, TRUE) >>

NodeIds == 1..Len(InitialDocument)

\* ------------------------------------------------------------ configuration
Config(hasDetections) ==
  [minCharacters |-> 5, lineBreakThreshold |-> 90, softBreakChars |-> << <<LSEP>> >>,
   hasDetections |-> hasDetections,
   enabledDetections |-> IF hasDetections
                         THEN {"auto-width", "edge-breaking", "soft-break"} ELSE {},
   fontWidthMultiplier |-> 100]

\* msg.config: a configuration with and one without an enabledDetections list
Configs == {Config(TRUE), Config(FALSE)}

\* msg.config of apply-selected, which never reads enabledDetections
SelectedConfigs == {Config(TRUE)}

\* msg.options of apply-selected
Options == {[removeLineBreaks |-> TRUE, convertSoftBreaks |-> TRUE],
            [removeLineBreaks |-> FALSE, convertSoftBreaks |-> TRUE]}

\* ------------------------------------------------------------ FontManager
FontKey(fontName) == fontName.family \o "-" \o fontName.style

\* loadNodeFonts: the first font from index `from` on that loadFont does not
\* find in loadedFonts, 0 when every remaining font is found there
RECURSIVE NextFontToLoad(_, _, _)
NextFontToLoad(loadedFonts, fonts, from) ==
  IF from > Len(fonts) THEN 0
  ELSE IF FontKey(fonts[from]) \in loadedFonts
       THEN NextFontToLoad(loadedFonts, fonts, from + 1)
       ELSE from

\* the host refuses to write a node that was removed or whose fonts it has
\* not loaded
HostWritable(nd, loaded) ==
  /\ ~nd.removed
  /\ \A k \in 1..Len(nd.fonts) : nd.fonts[k] \in loaded

ApplyWrites_TextFirst(nd, changes, loaded) ==
  LET doResize == changes.hasResize /\ changes.newAutoResize # ""
      doText == changes.hasText /\ changes.newText # <<>>
      ok == HostWritable(nd, loaded)
      nd1 == IF doText /\ ok THEN [nd EXCEPT !.characters = changes.newText] ELSE nd
      nd2 == IF doResize /\ ok
             THEN [nd1 EXCEPT !.textAutoResize = changes.newAutoResize] ELSE nd1
  IN [node |-> nd2,
      threw |-> (doResize \/ doText) /\ ~ok,
      wroteResize |-> doResize /\ ok,
      wroteText |-> doText /\ ok,
      modeAtTextWrite |-> IF doText /\ ok THEN nd.textAutoResize ELSE ""]

\* the two assignments of applyChangesToNode, in a state where the fonts
\* have been awaited; threw: a setter threw
ApplyWrites(nd, changes, loaded) ==
  LET doResize == changes.hasResize /\ changes.newAutoResize # ""
      doText == changes.hasText /\ changes.newText # <<>>
      ok == HostWritable(nd, loaded)
      nd1 == IF doResize /\ ok
             THEN [nd EXCEPT !.textAutoResize = changes.newAutoResize] ELSE nd
      nd2 == IF doText /\ ok THEN [nd1 EXCEPT !.characters = changes.newText] ELSE nd1
  IN [node |-> nd2,
      threw |-> (doResize \/ doText) /\ ~ok,
      wroteResize |-> doResize /\ ok,
      wroteText |-> doText /\ ok,
      modeAtTextWrite |-> IF doText /\ ok THEN nd1.textAutoResize ELSE ""]

\* validateNodesForProcessing: the reason a node is refused, "" when it is
\* processable
ValidationIssue(nd) ==
  IF nd.hasMissingFont THEN "Missing font - cannot process"
  ELSE IF nd.locked THEN "Node is locked"
  ELSE IF ~nd.visible THEN "Node is hidden"
  ELSE ""

\* the guards of applyChangesToNode before the fonts are loaded
ApplyGuard(nd) ==
  IF nd.hasMissingFont THEN "Cannot process node with missing font"
  ELSE IF nd.locked THEN "Cannot process locked node"
  ELSE ""

\* ------------------------------------------------------------ BatchProcessor
AnalysisChunkSize == 50
ProcessingChunkSize == 25

BatchProcessor(config) ==
  [isProcessing |-> FALSE, isCancelled |-> FALSE, loadedFonts |-> {}, config |-> config]

IsCancelled_Never(processor) == FALSE

\* the cancellation test at the head of each chunk and of each item
IsCancelled(processor) == processor.isCancelled

ProcessingResult(id, success, error, changes) ==
  [node |-> id, success |-> success, error |-> error, changes |-> changes]

RECURSIVE SelectSeq2(_, _)
\* seq.filter(keep), keep a function over the indices of seq
SelectSeq2(seq, keep) ==
  IF seq = <<>> THEN <<>>
  ELSE (IF keep[1] THEN <<seq[1]>> ELSE <<>>)
       \o SelectSeq2(Tail(seq), [k \in 1..(Len(seq) - 1) |-> keep[k + 1]])

\* analysisResults.find(r => r.node.id === node.id): its index, 0 when none
FindAnalysis(analysisResults, id) ==
  IF \E k \in 1..Len(analysisResults) : analysisResults[k].node = id
  THEN CHOOSE k \in 1..Len(analysisResults) :
         /\ analysisResults[k].node = id
         /\ \A m \in 1..(k - 1) : analysisResults[m].node # id
  ELSE 0

Min(a, b) == IF a <= b THEN a ELSE b


\* ------------------------------------------------------------ state
VARIABLES
  doc,              \* the text nodes of the page, by id
  hostFonts,        \* the fonts figma.loadFontAsync has loaded
  isProcessing,     \* the global flag of the control surface
  currentProcessor, \* index into procs, 0 for null
  scannedNodeIds,
  procs,            \* every BatchProcessor constructed so far
  tasks,            \* every batch command accepted so far: its async call
  uiResults,        \* the results of the last scan-complete message, which
                    \* the UI sends back with apply-all
  faults,           \* host events that went wrong so far
  lastApply,        \* what the last run of applyChangesToNode's writes did
  probe             \* the last direct call of a text function, with its result

vars == <<doc, hostFonts, isProcessing, currentProcessor, scannedNodeIds,
          procs, tasks, uiResults, faults, lastApply, probe>>

NoProbe == [op |-> "none"]

NoApply ==
  [node |-> 0, fontsLoaded |-> TRUE, changes |-> NoChanges, before |-> "",
   wroteResize |-> FALSE, wroteText |-> FALSE, modeAtTextWrite |-> "",
   by |-> "", fresh |-> NoChanges]

\* one accepted batch command.  pc is where its async call is suspended:
\* "saveConfig" (handleScan awaits clientStorage), "yield" (the batch awaits
\* yieldToUI), "loadFont" (loadFont awaits figma.loadFontAsync), or "done".
\* The fields from `started` on record what happened, for the properties, and
\* so does `fresh`: the changes generateChanges gives for the content the
\* block has when its changes are generated.
Task(kind, pc, proc, options) ==
  [kind |-> kind, pc |-> pc, proc |-> proc, options |-> options,
   work |-> <<>>, analysis |-> <<>>, i |-> 0, j |-> 0, fidx |-> 0,
   chg |-> NoChanges, fresh |-> NoChanges, results |-> <<>>, outcome |-> "running",
   delivered |-> <<>>,
   started |-> <<>>, threw |-> {}, stopped |-> FALSE, cancelSeen |-> FALSE,
   lateStart |-> FALSE, callCancelled |-> FALSE, resAtCancel |-> <<>>,
   nodeAtCancel |-> 0, lateCallStart |-> FALSE, cancelledIn |-> ""]

NoOptions == [removeLineBreaks |-> FALSE, convertSoftBreaks |-> FALSE]

InFlight(t) == tasks[t].pc # "done"

\* the state a handler's synchronous run works on
World(task, cb) ==
  [doc |-> doc, hostFonts |-> hostFonts, procs |-> procs, cp |-> currentProcessor,
   task |-> task, la |-> lastApply, cb |-> cb, reset |-> 0]

\* the item a suspended batch is working on
CurrentNode(task) ==
  IF task.kind = "applySelected" THEN task.work[task.i + 1]
  ELSE task.work[task.i + task.j + 1]

\* an item starts: recorded with whether a cancel came before
StartItem(w, id) ==
  [w EXCEPT !.task.started = Append(@, id),
            !.task.lateStart = @ \/ w.task.cancelSeen,
            !.task.lateCallStart = @ \/ w.task.callCancelled]

\* onProgress is called: it throws when the pending fault of this step is
\* that the progress message cannot be posted
ProgressThrows(w) == w.cb
AfterProgress(w) == [w EXCEPT !.cb = FALSE]

\* the outer catch and finally of analyzeNodes / processNodes, then the
\* handler's catch (an error message, no results) and finally
BatchFailed(w) ==
  [w EXCEPT !.procs = IF w.task.proc = 0 THEN @
                      ELSE [@ EXCEPT ![w.task.proc].isProcessing = FALSE],
            !.task.pc = "done", !.task.outcome = "error"]

\* the finally of analyzeNodes / processNodes and the handler's message
\* carrying the results
BatchReturned(w, stopped) ==
  [w EXCEPT !.procs[w.task.proc].isProcessing = FALSE,
            !.task.pc = "done", !.task.outcome = "ok",
            !.task.stopped = stopped, !.task.delivered = w.task.results]

Yield(w) ==
  IF w.task.pc = "done" THEN w
  ELSE [w EXCEPT !.task.pc = "yield", !.task.j = @ + 1, !.task.fidx = 0]

\* ---- analyzeNodes
\* the per-item catch: the error result reads node.characters again
AnalysisCatch(w, id) ==
  IF NodeReadable(w.doc[id])
  THEN [w EXCEPT !.task.results =
          Append(@, AnalysisResult(id, <<>>, "Analysis error", w.doc[id].characters))]
  ELSE BatchFailed(w)

AnalyzeItem(w0) ==
  LET id == CurrentNode(w0.task)
      w == StartItem(w0, id)
      nd == w.doc[id]
      cfg == w.procs[w.task.proc].config
  IN IF AnalyzeThrows(cfg, nd)
     THEN Yield(AnalysisCatch([w EXCEPT !.task.threw = @ \cup {id}], id))
     ELSE LET w1 == [w EXCEPT !.task.results = Append(@, AnalyzeTextNode(cfg, id, nd))]
          IN IF ProgressThrows(w1)
             THEN Yield(AnalysisCatch(AfterProgress(w1), id))
             ELSE Yield(w1)

RECURSIVE AnalyzeFrom(_)
\* the two loops of analyzeNodes, from the head of the loop to the next await
AnalyzeFrom(w) ==
  LET n == Len(w.task.work)
  IN IF w.task.i >= n THEN BatchReturned(w, FALSE)
     ELSE IF w.task.j >= Min(AnalysisChunkSize, n - w.task.i)
     THEN AnalyzeFrom([w EXCEPT !.task.i = @ + AnalysisChunkSize, !.task.j = 0])
     ELSE IF IsCancelled(w.procs[w.task.proc]) THEN BatchReturned(w, TRUE)
     ELSE AnalyzeItem(w)

\* findTextNodes of the whole page
FindTextNodes(cfg, d) ==
  SelectSeq2([k \in 1..Len(d) |-> k],
             [k \in 1..Len(d) |->
                /\ ~d[k].removed /\ ~d[k].locked /\ d[k].visible
                /\ Len(d[k].characters) >= cfg.minCharacters])

\* ---- applyChangesToNode
ApplyOutcome(status, error, fidx, w) ==
  [status |-> status, error |-> error, fidx |-> fidx, w |-> w]

\* from = 1: the call from its start; from > 1: resumed after font from - 1
ApplyChangesToNode(w, id, changes, from) ==
  LET nd == w.doc[id]
      fm == w.procs[w.task.proc]
  IN IF from = 1 /\ ~NodeReadable(nd)
     THEN ApplyOutcome("fail", "node does not exist", 0, w)
     ELSE IF from = 1 /\ ApplyGuard(nd) # ""
     THEN ApplyOutcome("fail", ApplyGuard(nd), 0, w)
     ELSE LET f == NextFontToLoad(fm.loadedFonts, nd.fonts, from)
          IN IF f > 0 THEN ApplyOutcome("suspend", "", f, w)
             ELSE LET r == ApplyWrites(nd, changes, w.hostFonts)
                      w1 == [w EXCEPT
                               !.doc[id] = r.node,
                               !.la = [node |-> id,
                                       fontsLoaded |->
                                         \A k \in 1..Len(nd.fonts) :
                                            nd.fonts[k] \in w.hostFonts,
                                       changes |-> changes,
                                       before |-> nd.textAutoResize,
                                       wroteResize |-> r.wroteResize,
                                       wroteText |-> r.wroteText,
                                       modeAtTextWrite |-> r.modeAtTextWrite,
                                       by |-> w.task.kind,
                                       fresh |-> w.task.fresh]]
                  IN IF r.threw
                     THEN ApplyOutcome("fail", "Failed to apply changes", 0, w1)
                     ELSE ApplyOutcome("ok", "", 0, w1)

\* ---- processNodes
ProcessCatch_Dropped(w, id, error) == w

\* the per-item catch
ProcessCatch(w, id, error) ==
  [w EXCEPT !.task.results = Append(@, ProcessingResult(id, FALSE, error, NoChanges))]

\* after applyChangesToNode of item id returned, threw or suspended
ProcessAfterApply(a, id) ==
  IF a.status = "suspend"
  THEN [a.w EXCEPT !.task.pc = "loadFont", !.task.fidx = a.fidx]
  ELSE IF a.status = "fail"
  THEN Yield(ProcessCatch([a.w EXCEPT !.task.threw = @ \cup {id}], id, a.error))
  ELSE LET w1 == [a.w EXCEPT !.task.results =
                     Append(@, ProcessingResult(id, TRUE, "", a.w.task.chg))]
       IN IF ProgressThrows(w1)
          THEN Yield(ProcessCatch(AfterProgress(w1), id, "progress message failed"))
          ELSE Yield(w1)

RECURSIVE ProcessFrom(_)
\* the two loops of processNodes, from the head of the loop to the next await
ProcessFrom(w0) ==
  LET n == Len(w0.task.work)
  IN IF w0.task.i >= n THEN BatchReturned(w0, FALSE)
     ELSE IF w0.task.j >= Min(ProcessingChunkSize, n - w0.task.i)
     THEN ProcessFrom([w0 EXCEPT !.task.i = @ + ProcessingChunkSize, !.task.j = 0])
     ELSE IF IsCancelled(w0.procs[w0.task.proc]) THEN BatchReturned(w0, TRUE)
     ELSE LET id == CurrentNode(w0.task)
              w == StartItem(w0, id)
              nd == w.doc[id]
              k == FindAnalysis(w.task.analysis, id)
          IN IF k = 0 \/ (k > 0 /\ w.task.analysis[k].issues = <<>>)
             THEN ProcessFrom([w EXCEPT !.task.j = @ + 1])
             ELSE IF ~NodeReadable(nd)
             THEN Yield(ProcessCatch([w EXCEPT !.task.threw = @ \cup {id}], id,
                                     "node does not exist"))
             ELSE LET changes == GenerateChanges(w.procs[w.task.proc].config,
                                                 w.task.analysis[k].originalText,
                                                 w.task.analysis[k].issues, nd)
                      fresh == GenerateChanges(w.procs[w.task.proc].config,
                                               nd.characters,
                                               w.task.analysis[k].issues, nd)
                  IN ProcessAfterApply(
                       ApplyChangesToNode([w EXCEPT !.task.chg = changes,
                                                    !.task.fresh = fresh],
                                          id, changes, 1),
                       id)

\* processNodes from its first line to the first await that suspends it
ProcessNodes(w0, analysisResults) ==
  LET w == [w0 EXCEPT !.procs[w0.task.proc].isProcessing = TRUE,
                      !.procs[w0.task.proc].isCancelled = FALSE,
                      !.reset = w0.task.proc,
                      !.task.analysis = analysisResults]
      nodesToProcess ==
        SelectSeq2(analysisResults,
                   [k \in 1..Len(analysisResults) |-> analysisResults[k].issues # <<>>])
      ids == [k \in 1..Len(nodesToProcess) |-> nodesToProcess[k].node]
  IN IF \E k \in 1..Len(ids) : ~NodeReadable(w.doc[ids[k]])
     THEN BatchFailed(w)
     ELSE LET refused == SelectSeq2(ids, [k \in 1..Len(ids) |->
                                            ValidationIssue(w.doc[ids[k]]) # ""])
              processable == SelectSeq2(ids, [k \in 1..Len(ids) |->
                                                ValidationIssue(w.doc[ids[k]]) = ""])
          IN ProcessFrom([w EXCEPT
               !.task.work = processable,
               !.task.results =
                 [k \in 1..Len(refused) |->
                    ProcessingResult(refused[k], FALSE,
                                     ValidationIssue(w.doc[refused[k]]), NoChanges)]])


\* ---- processIndividualNode with forceChanges, and handleApplySelected
ForcedChanges(cfg, nd, options) ==
  LET t1 == IF options.removeLineBreaks
            THEN RemoveLineBreaksJapanesePriority(cfg, nd.characters, nd.width,
                                                  nd.fontSize, TRUE)
            ELSE nd.characters
      t2 == IF options.convertSoftBreaks THEN ConvertSoftBreaksToHard(cfg, t1) ELSE t1
      resize == options.removeLineBreaks /\ nd.textAutoResize = "WIDTH_AND_HEIGHT"
  IN Changes(resize, IF resize THEN "HEIGHT" ELSE "",
             t2 # nd.characters, IF t2 # nd.characters THEN t2 ELSE <<>>)

\* the handler's catch and finally: an error message, no results
SelectedFailed(w) == [w EXCEPT !.task.pc = "done", !.task.outcome = "error"]

\* the processing-complete message and the handler's finally
SelectedReturned(w) ==
  [w EXCEPT !.task.pc = "done", !.task.outcome = "ok",
            !.task.delivered = w.task.results]

\* processIndividualNode returned: processResults.push(result), i++
SelectedPush(w, result) ==
  [w EXCEPT !.task.results = Append(@, result), !.task.i = @ + 1, !.task.fidx = 0]

RECURSIVE SelectedFrom(_)
\* after applyChangesToNode of item id returned, threw or suspended
SelectedAfterApply(a, id) ==
  IF a.status = "suspend"
  THEN [a.w EXCEPT !.task.pc = "loadFont", !.task.fidx = a.fidx]
  ELSE IF a.status = "fail"
  THEN SelectedFrom(SelectedPush([a.w EXCEPT !.task.threw = @ \cup {id}],
                                 ProcessingResult(id, FALSE, a.error, NoChanges)))
  ELSE SelectedFrom(SelectedPush(a.w, ProcessingResult(id, TRUE, "", a.w.task.chg)))

\* the loop of handleApplySelected, from its head to the next await that
\* suspends it
SelectedFrom(w0) ==
  IF w0.task.i >= Len(w0.task.work) THEN SelectedReturned(w0)
  ELSE LET id == CurrentNode(w0.task)
           w == StartItem(w0, id)
           nd == w.doc[id]
       IN IF ~NodeReadable(nd) THEN SelectedFailed(w)
          ELSE IF ProgressThrows(w) THEN SelectedFailed(AfterProgress(w))
          ELSE IF w.cp = 0 THEN SelectedFailed(w)
          ELSE LET w1 == [w EXCEPT !.task.proc = w.cp]
                   changes == ForcedChanges(w.procs[w.cp].config, nd, w.task.options)
               IN IF ValidationIssue(nd) # ""
                  THEN SelectedFrom(SelectedPush(w1,
                         ProcessingResult(id, FALSE, ValidationIssue(nd), NoChanges)))
                  ELSE IF ~changes.hasResize /\ ~changes.hasText
                  THEN SelectedFrom(SelectedPush(w1,
                         ProcessingResult(id, TRUE, "", NoChanges)))
                  ELSE SelectedAfterApply(
                         ApplyChangesToNode([w1 EXCEPT !.task.chg = changes],
                                            id, changes, 1), id)

\* figma.currentPage.selection: the user has selected every block of the page
Selection(d) == SelectSeq2([k \in 1..Len(d) |-> k], [k \in 1..Len(d) |-> ~d[k].removed])

\* ---- scanCurrentPage, called by handleScan after saveConfig
ScanCurrentPage(w0) ==
  IF w0.cp = 0 THEN [w0 EXCEPT !.task.pc = "done", !.task.outcome = "error"]
  ELSE LET cfg == w0.procs[w0.cp].config
           textNodes == FindTextNodes(cfg, w0.doc)
       IN IF textNodes = <<>>
          THEN [w0 EXCEPT !.task.pc = "done", !.task.outcome = "error",
                          !.task.proc = w0.cp]
          ELSE AnalyzeFrom([w0 EXCEPT !.procs[w0.cp].isProcessing = TRUE,
                                      !.procs[w0.cp].isCancelled = FALSE,
                                      !.reset = w0.cp,
                                      !.task.proc = w0.cp,
                                      !.task.work = textNodes])

\* ------------------------------------------------------------ transitions
\* a call of analyzeNodes or processNodes began on processor p: the
\* cancellation another call on p was waiting to see is gone
CancellationLost(task, p) ==
  IF p # 0 /\ task.proc = p /\ task.pc # "done" /\ task.kind # "applySelected"
  THEN [task EXCEPT !.callCancelled = FALSE]
  ELSE task

\* the state after the synchronous run w of task t (t = Len(tasks) + 1 for a
\* command just accepted); w.reset: the processor whose flags the run reset
\* fault: the step used up one host event that goes wrong
Commit(t, w, fault) ==
  /\ fault => ~w.cb
  /\ faults' = faults + (IF fault THEN 1 ELSE 0)
  /\ doc' = w.doc
  /\ procs' = w.procs
  /\ lastApply' = w.la
  /\ tasks' = [u \in 1..(IF t > Len(tasks) THEN t ELSE Len(tasks)) |->
                 IF u = t THEN w.task ELSE CancellationLost(tasks[u], w.reset)]
  /\ isProcessing' = IF w.task.pc = "done" THEN FALSE
                     ELSE IF t > Len(tasks) THEN TRUE ELSE isProcessing
  /\ IF w.task.kind = "scan" /\ w.task.pc = "done" /\ w.task.outcome = "ok"
     THEN /\ scannedNodeIds' = {w.task.results[k].node : k \in 1..Len(w.task.results)}
          /\ uiResults' = w.task.results
     ELSE UNCHANGED <<scannedNodeIds, uiResults>>
  /\ UNCHANGED probe

Throws(cb) == IF cb THEN faults < MaxFaults ELSE TRUE

\* msg.type = 'scan': handleScan up to `await saveConfig(config)`
HandleScan(cfg) ==
  /\ ~isProcessing
  /\ Len(tasks) < MaxTasks
  /\ isProcessing' = TRUE
  /\ procs' = Append(procs, BatchProcessor(cfg))
  /\ currentProcessor' = Len(procs) + 1
  /\ tasks' = Append(tasks, Task("scan", "saveConfig", Len(procs) + 1, NoOptions))
  /\ UNCHANGED <<doc, hostFonts, scannedNodeIds, uiResults, faults, lastApply, probe>>

\* clientStorage.setAsync settled: handleScan goes on with scanCurrentPage on
\* whatever processor currentProcessor names now
SaveConfigDone(t, cb) ==
  /\ tasks[t].pc = "saveConfig"
  /\ Throws(cb)
  /\ Commit(t, ScanCurrentPage(World(tasks[t], cb)), cb)
  /\ UNCHANGED <<hostFonts, currentProcessor>>

\* the setTimeout of yieldToUI fired: the batch goes on from its loop head
TimerFires(t, cb) ==
  /\ tasks[t].pc = "yield"
  /\ Throws(cb)
  /\ Commit(t, IF tasks[t].kind = "scan" THEN AnalyzeFrom(World(tasks[t], cb))
               ELSE ProcessFrom(World(tasks[t], cb)), cb)
  /\ UNCHANGED <<hostFonts, currentProcessor>>

\* msg.type = 'apply-all' with the results of the last scan
HandleApplyAll(cb) ==
  /\ ~isProcessing
  /\ currentProcessor # 0
  /\ uiResults # <<>>
  /\ Len(tasks) < MaxTasks
  /\ Throws(cb)
  /\ Commit(Len(tasks) + 1,
            ProcessNodes(World(Task("applyAll", "run", currentProcessor, NoOptions), cb),
                         uiResults),
            cb)
  /\ UNCHANGED <<hostFonts, currentProcessor>>

\* msg.type = 'apply-selected': handleApplySelected up to the first font it
\* has to wait for
HandleApplySelected(cfg, options, cb) ==
  /\ ~isProcessing
  /\ Len(tasks) < MaxTasks
  /\ Throws(cb)
  /\ currentProcessor' = Len(procs) + 1
  /\ LET task == [Task("applySelected", "run", Len(procs) + 1, options)
                    EXCEPT !.work = Selection(doc)]
         w == [World(task, cb) EXCEPT !.procs = Append(procs, BatchProcessor(cfg)),
                                      !.cp = Len(procs) + 1]
     IN Commit(Len(tasks) + 1,
               IF task.work = <<>>
               THEN [w EXCEPT !.task.pc = "done", !.task.outcome = "nothing selected"]
               ELSE SelectedFrom(w),
               cb)
  /\ UNCHANGED hostFonts

\* figma.loadFontAsync resolved: loadFont records the key, loadNodeFonts
\* goes on with the next font, then applyChangesToNode writes
FontLoaded(t, cb) ==
  /\ tasks[t].pc = "loadFont"
  /\ Throws(cb)
  /\ LET id == CurrentNode(tasks[t])
         fontName == doc[id].fonts[tasks[t].fidx]
         w == [World(tasks[t], cb) EXCEPT
                 !.hostFonts = @ \cup {fontName},
                 !.procs[tasks[t].proc].loadedFonts = @ \cup {FontKey(fontName)}]
         a == ApplyChangesToNode(w, id, tasks[t].chg, tasks[t].fidx + 1)
     IN /\ hostFonts' = hostFonts \cup {fontName}
        /\ Commit(t, IF tasks[t].kind = "applySelected" THEN SelectedAfterApply(a, id)
                     ELSE ProcessAfterApply(a, id), cb)
  /\ UNCHANGED currentProcessor

\* figma.loadFontAsync rejected: loadFont throws out of applyChangesToNode
FontLoadFails(t) ==
  /\ tasks[t].pc = "loadFont"
  /\ faults < MaxFaults
  /\ LET id == CurrentNode(tasks[t])
         a == ApplyOutcome("fail", "Failed to load font", 0, World(tasks[t], FALSE))
     IN Commit(t, IF tasks[t].kind = "applySelected" THEN SelectedAfterApply(a, id)
                  ELSE ProcessAfterApply(a, id), TRUE)
  /\ UNCHANGED <<hostFonts, currentProcessor>>

\* msg.type = 'clear-results'
HandleClearResults ==
  /\ scannedNodeIds' = {}
  /\ isProcessing' = FALSE
  /\ currentProcessor' = 0
  /\ uiResults' = <<>>
  /\ UNCHANGED <<doc, hostFonts, procs, tasks, faults, lastApply, probe>>

\* the batch of task is inside analyzeNodes or processNodes of processor p
InsideCallOn(task, p) ==
  /\ task.proc = p
  /\ task.kind \in {"scan", "applyAll"}
  /\ task.pc \in {"yield", "loadFont"}

\* msg.type = 'cancel'
HandleCancel ==
  /\ procs' = IF currentProcessor = 0 THEN procs
              ELSE [procs EXCEPT ![currentProcessor].isCancelled = TRUE]
  /\ isProcessing' = FALSE
  /\ tasks' = [u \in 1..Len(tasks) |->
      IF tasks[u].pc = "done" THEN tasks[u]
      ELSE IF currentProcessor # 0 /\ InsideCallOn(tasks[u], currentProcessor)
              /\ ~tasks[u].callCancelled
      THEN [tasks[u] EXCEPT !.cancelSeen = TRUE, !.callCancelled = TRUE,
                            !.resAtCancel = tasks[u].results,
                            !.nodeAtCancel = IF tasks[u].pc = "loadFont"
                                             THEN CurrentNode(tasks[u]) ELSE 0]
      ELSE [tasks[u] EXCEPT !.cancelSeen = TRUE]]
  /\ UNCHANGED <<doc, hostFonts, currentProcessor, scannedNodeIds, uiResults,
                 faults, lastApply, probe>>

\* the user deletes a block while the plugin runs
RemoveNode(n) ==
  /\ faults < MaxFaults
  /\ ~doc[n].removed
  /\ doc' = [doc EXCEPT ![n].removed = TRUE]
  /\ faults' = faults + 1
  /\ UNCHANGED <<hostFonts, isProcessing, currentProcessor, scannedNodeIds, procs,
                 tasks, uiResults, lastApply, probe>>

\* what the user types in front of the content of a block
EditedText(characters) == <<LatinA>> \o characters

\* the user edits a block that was scanned, while the plugin runs or waits
EditNode(n) ==
  /\ faults < MaxFaults
  /\ n \in scannedNodeIds
  /\ ~doc[n].removed
  /\ doc[n].characters = InitialDocument[n].characters
  /\ doc' = [doc EXCEPT ![n].characters = EditedText(@)]
  /\ faults' = faults + 1
  /\ UNCHANGED <<hostFonts, isProcessing, currentProcessor, scannedNodeIds, procs,
                 tasks, uiResults, lastApply, probe>>

Init ==
  /\ doc = InitialDocument
  /\ hostFonts = {}
  /\ isProcessing = FALSE
  /\ currentProcessor = 0
  /\ scannedNodeIds = {}
  /\ procs = <<>>
  /\ tasks = <<>>
  /\ uiResults = <<>>
  /\ faults = 0
  /\ lastApply = NoApply
  /\ probe = NoProbe

Next ==
  \/ \E cfg \in Configs : HandleScan(cfg)
  \/ \E t \in 1..Len(tasks), cb \in BOOLEAN : SaveConfigDone(t, cb)
  \/ \E t \in 1..Len(tasks), cb \in BOOLEAN : TimerFires(t, cb)
  \/ \E cb \in BOOLEAN : HandleApplyAll(cb)
  \/ \E cfg \in SelectedConfigs, options \in Options, cb \in BOOLEAN :
       HandleApplySelected(cfg, options, cb)
  \/ \E t \in 1..Len(tasks), cb \in BOOLEAN : FontLoaded(t, cb)
  \/ \E t \in 1..Len(tasks) : FontLoadFails(t)
  \/ HandleClearResults
  \/ HandleCancel
  \/ \E n \in NodeIds : RemoveNode(n)
  \/ \E n \in NodeIds : EditNode(n)

Spec == Init /\ [][Next]_vars

\* ------------------------------------------------------------ processSelectedNodes
\* BatchProcessor.processSelectedNodes of src/batchProcessor.ts, called on a
\* processor of its own.  Its task is of kind "selectedAnalyze" while it
\* awaits analyzeNodes and of kind "selectedProcess" while it awaits
\* processNodes; cancelledIn records the phase in which cancel() first came.

\* `await this.analyzeNodes(...)` returned: processNodes begins with its
\* results in the same run; a failed analysis rejects the whole call
ThenProcessNodes(a) ==
  IF a.task.pc = "done" /\ a.task.outcome = "ok"
  THEN ProcessNodes([a EXCEPT !.task.kind = "selectedProcess", !.task.pc = "run",
                              !.task.outcome = "running", !.task.stopped = FALSE,
                              !.task.i = 0, !.task.j = 0, !.task.fidx = 0,
                              !.task.results = <<>>, !.task.delivered = <<>>],
                    a.task.results)
  ELSE a

\* processSelectedNodes from its first line to the first await that suspends it
ProcessSelectedNodes(w0) ==
  LET selectedNodes == Selection(w0.doc)
  IN IF selectedNodes = <<>>
     THEN [w0 EXCEPT !.task.pc = "done", !.task.outcome = "nothing selected"]
     ELSE ThenProcessNodes(
            AnalyzeFrom([w0 EXCEPT !.procs[w0.task.proc].isProcessing = TRUE,
                                   !.procs[w0.task.proc].isCancelled = FALSE,
                                   !.reset = w0.task.proc,
                                   !.task.work = selectedNodes]))

\* new BatchProcessor(cfg).processSelectedNodes(onProgress), no call in flight
CallProcessSelectedNodes(cfg, cb) ==
  /\ \A t \in 1..Len(tasks) : ~InFlight(t)
  /\ Len(tasks) < MaxTasks
  /\ Throws(cb)
  /\ LET task == Task("selectedAnalyze", "run", Len(procs) + 1, NoOptions)
         w == [World(task, cb) EXCEPT !.procs = Append(procs, BatchProcessor(cfg))]
     IN Commit(Len(tasks) + 1, ProcessSelectedNodes(w), cb)
  /\ UNCHANGED <<hostFonts, currentProcessor>>

\* the setTimeout of yieldToUI fired inside processSelectedNodes
SelectedTimerFires(t, cb) ==
  /\ tasks[t].pc = "yield"
  /\ Throws(cb)
  /\ Commit(t, IF tasks[t].kind = "selectedAnalyze"
               THEN ThenProcessNodes(AnalyzeFrom(World(tasks[t], cb)))
               ELSE ProcessFrom(World(tasks[t], cb)), cb)
  /\ UNCHANGED <<hostFonts, currentProcessor>>

\* cancel() on processor p
Cancel(p) ==
  /\ procs' = [procs EXCEPT ![p].isCancelled = TRUE]
  /\ tasks' = [u \in 1..Len(tasks) |->
      IF tasks[u].proc = p /\ InFlight(u) /\ tasks[u].cancelledIn = ""
      THEN [tasks[u] EXCEPT !.cancelSeen = TRUE,
                            !.cancelledIn = IF tasks[u].kind = "selectedAnalyze"
                                            THEN "analysis" ELSE "processing"]
      ELSE tasks[u]]
  /\ UNCHANGED <<doc, hostFonts, isProcessing, currentProcessor, scannedNodeIds,
                 uiResults, faults, lastApply, probe>>

BatchNext ==
  \/ \E cfg \in Configs, cb \in BOOLEAN : CallProcessSelectedNodes(cfg, cb)
  \/ \E t \in 1..Len(tasks), cb \in BOOLEAN : SelectedTimerFires(t, cb)
  \/ \E t \in 1..Len(tasks), cb \in BOOLEAN : FontLoaded(t, cb)
  \/ \E t \in 1..Len(tasks) : FontLoadFails(t)
  \/ \E p \in 1..Len(procs) : Cancel(p)
  \/ \E n \in NodeIds : RemoveNode(n)

BatchSpec == Init /\ [][BatchNext]_vars

\* ------------------------------------------------------------ TextProcessor of src/textProcessor.js
\* The pairwise line-join pass of the earlier TextProcessor, with the default
\* configuration (no excludePatterns).
IsDigit(c) == c >= 48 /\ c <= 57

IsLatinLetter(c) == (c >= 65 /\ c <= 90) \/ (c >= 97 /\ c <= 122)

\* the sentenceEnders 。 ． . ! ? ！ ？
IsSentenceEnding(c) == c \in {12290, 65294, 46, 33, 63, 65281, 65311}

\* /^[\d]+[.)]/ with a suffix test: digits, then . or ), then what `after` asks
DigitsThenMark(line, after) ==
  \E n \in 1..Len(line) :
    /\ \A k \in 1..n : IsDigit(line[k])
    /\ n + 1 <= Len(line) /\ line[n + 1] \in {46, 41}
    /\ after => (n + 2 <= Len(line) /\ IsWhitespace(line[n + 2]))

\* the bulletPatterns
IsBulletPointLine(line) ==
  /\ line # <<>>
  /\ \/ line[1] \in {8226, 183, 8251}
     \/ DigitsThenMark(line, FALSE)
     \/ IsLatinLetter(line[1]) /\ Len(line) >= 2 /\ line[2] \in {46, 41}
     \/ line[1] \in {45, 42, 43}
     \/ (line[1] >= 9312 /\ line[1] <= 9331)

LooksLikeHeading(line) ==
  IF Len(line) > 50 THEN FALSE
  ELSE \/ /\ Len(line) >= 3
          /\ \A k \in 1..Len(line) :
                (line[k] >= 65 /\ line[k] <= 90) \/ IsWhitespace(line[k])
       \/ DigitsThenMark(line, TRUE)

IsConnectableText(line1, line2) ==
  /\ ~LooksLikeHeading(Trim(line1)) /\ ~LooksLikeHeading(Trim(line2))
  /\ Len(Trim(line1)) >= 10 /\ Len(Trim(line2)) >= 10

PairwiseShouldRemoveLineBreak(currentLine, nextLine) ==
  LET cur == Trim(currentLine)
      nxt == Trim(nextLine)
  IN IF cur = <<>> \/ nxt = <<>> THEN FALSE
     ELSE IF IsSentenceEnding(cur[Len(cur)]) THEN FALSE
     ELSE IF IsBulletPointLine(nxt) THEN FALSE
     ELSE IF IsJapanese(cur[Len(cur)]) /\ IsJapanese(nxt[1]) THEN TRUE
     ELSE IsConnectableText(currentLine, nextLine)

PairwiseCombineLines(line1, line2) ==
  LET trimmed1 == TrimEnd(line1)
      trimmed2 == TrimStart(line2)
  IN IF trimmed1 # <<>> /\ trimmed2 # <<>>
        /\ ~(IsJapanese(trimmed1[Len(trimmed1)]) /\ IsJapanese(trimmed2[1]))
     THEN trimmed1 \o <<SP>> \o trimmed2
     ELSE trimmed1 \o trimmed2

\* the characters 。 ． 、 ， ！ ？ normalizeSpaces clears the whitespace around
IsJapanesePunctuation(c) == c \in {12290, 65294, 12289, 65292, 65281, 65311}

IsBlankChar(c) == c \in {32, 9}

\* position i of text lies in a run of the class `in` that reaches a
\* character of the class `at` on the side `dir` (1: after it, -1: before it);
\* the end of the text counts as such a character when `orEnd` holds
RECURSIVE RunReaches(_, _, _, _, _, _)
RunReaches(text, i, dir, in(_), at(_), orEnd) ==
  IF i < 1 \/ i > Len(text) THEN orEnd
  ELSE IF at(text[i]) THEN TRUE
  ELSE IF in(text[i]) THEN RunReaches(text, i + dir, dir, in, at, orEnd)
  ELSE FALSE

Keep(text, keep(_)) ==
  LET idx == {i \in 1..Len(text) : keep(i)}
      RECURSIVE Sel(_)
      Sel(i) == IF i > Len(text) THEN <<>>
                ELSE (IF i \in idx THEN <<text[i]>> ELSE <<>>) \o Sel(i + 1)
  IN Sel(1)

NormalizeSpaces(text) ==
  LET \* /[ \t]+$/gm: blanks before a line terminator or the end
      t1 == Keep(text, LAMBDA i :
                  ~(IsBlankChar(text[i])
                    /\ RunReaches(text, i, 1, IsBlankChar,
                                  LAMBDA c : c \in {10, 13, 8232, 8233}, TRUE)))
      \* /[ \t]+/g -> ' ': one space for every run of blanks
      t2 == [i \in 1..Len(Keep(t1, LAMBDA i : ~(IsBlankChar(t1[i]) /\ i > 1
                                                 /\ IsBlankChar(t1[i - 1])))) |->
               LET c == Keep(t1, LAMBDA j : ~(IsBlankChar(t1[j]) /\ j > 1
                                              /\ IsBlankChar(t1[j - 1])))[i]
               IN IF IsBlankChar(c) THEN SP ELSE c]
      \* /\s*([。．、，！？])\s*/g -> '$1'
  IN Keep(t2, LAMBDA i :
            ~(IsWhitespace(t2[i])
              /\ (\/ RunReaches(t2, i, 1, IsWhitespace, IsJapanesePunctuation, FALSE)
                  \/ RunReaches(t2, i, -1, IsWhitespace, IsJapanesePunctuation,
                                FALSE))))

RECURSIVE PairwisePass(_, _)
\* the loop over the lines: a joined pair is pushed and its second line skipped
PairwisePass(lines, i) ==
  IF i > Len(lines) THEN <<>>
  ELSE IF i < Len(lines) /\ PairwiseShouldRemoveLineBreak(lines[i], lines[i + 1])
  THEN <<PairwiseCombineLines(lines[i], lines[i + 1])>> \o PairwisePass(lines, i + 2)
  ELSE <<lines[i]>> \o PairwisePass(lines, i + 1)

\* removeLineBreaksJapanesePriority(text) of src/textProcessor.js
PairwiseRemoveLineBreaks(text) ==
  NormalizeSpaces(JoinWith(PairwisePass(SplitByClass(text, {LF}), 1), <<LF>>))

\* ------------------------------------------------------------ direct calls
\* The text functions called on their own: each action is one call on a
\* fresh plugin, with its arguments and its result recorded in probe.

\* the longest enumerated text
MaxLen == 4
PairwiseLen == 5

Kuten == 12290
Touten == 12289
Dot == 46
Dollar == 36
LeftParen == 40
DefaultFontSize == 16

Seqs(alphabet, n) == UNION {[1..k -> alphabet] : k \in 0..n}

Hiragana(n) == [i \in 1..n |-> HiraganaA]

\* a configuration of the settings panel
TextConfig(softBreakChars, lineBreakThreshold) ==
  [Config(TRUE) EXCEPT !.minCharacters = 2,
                       !.softBreakChars = softBreakChars,
                       !.lineBreakThreshold = lineBreakThreshold]

RejoinTexts ==
  Seqs({HiraganaA, Kuten, LF, LSEP, LatinA, SP}, MaxLen)
    \cup {Hiragana(23) \o <<LF, HiraganaA>>, Hiragana(20) \o <<LF, HiraganaA>>,
          Hiragana(2) \o <<LF, LF, HiraganaA>>}

RejoinConfigs == {TextConfig(<< <<LSEP>> >>, 90), TextConfig(<< <<LSEP>> >>, 50)}

ContainerWidths == {32, 400}

CombineTexts == Seqs({HiraganaA, Touten, LatinA, SP}, 2)

ConvertTexts == Seqs({LatinA, LSEP, LF, Dot}, MaxLen - 1)

ConvertConfigs ==
  {TextConfig(chars, 90) :
     chars \in {<< <<LSEP>> >>, << <<LSEP>>, <<LatinA>> >>, << <<LatinA, LatinA>> >>,
                << <<Dot>> >>, << <<Dollar>> >>, << <<LeftParen>> >>}}

DetectTexts ==
  Seqs({HiraganaA, LF, LSEP, SP}, MaxLen - 1)
    \cup {<<LatinA, LSEP, LatinA, LSEP, LatinA>>}

DetectConfigs ==
  {TextConfig(chars, threshold) :
     chars \in {<< <<LSEP>> >>, << <<LSEP>>, <<LSEP>> >>}, threshold \in {90, 50}}

ResizeModes == {"NONE", "HEIGHT", "WIDTH_AND_HEIGHT", "TRUNCATE"}

DetectNodes ==
  {[TextNode(text, mode, <<Font("Inter", "Regular")>>, missing)
      EXCEPT !.locked = locked, !.visible = visible,
             !.paragraphSpacing = spacing, !.width = 32] :
     text \in DetectTexts, mode \in ResizeModes, missing \in BOOLEAN,
     locked \in BOOLEAN, visible \in BOOLEAN, spacing \in {0, 8}}

ProgramUnchanged ==
  UNCHANGED <<doc, hostFonts, isProcessing, currentProcessor, scannedNodeIds, procs,
              tasks, uiResults, faults, lastApply>>

\* the text functions are private: the line-break cleaning reaches rejoin
\* through generateChanges, once per apply; `again` is what the next apply
\* makes of the result of this one
CallRemoveLineBreaks(cfg, text, containerWidth) ==
  LET out == RemoveLineBreaksJapanesePriority(cfg, text, containerWidth,
                                              DefaultFontSize, FALSE)
  IN /\ probe' = [op |-> "rejoin", cfg |-> cfg, text |-> text,
                  containerWidth |-> containerWidth,
                  out |-> out,
                  again |-> RemoveLineBreaksJapanesePriority(cfg, out, containerWidth,
                                                             DefaultFontSize, FALSE)]
     /\ ProgramUnchanged

CallCombineLines(line1, line2) ==
  /\ probe' = [op |-> "combine", line1 |-> line1, line2 |-> line2,
               out |-> CombineLines(line1, line2)]
  /\ ProgramUnchanged

CallConvertSoftBreaks(cfg, text) ==
  /\ probe' = [op |-> "convert", cfg |-> cfg, text |-> text,
               threw |-> ConvertThrows(cfg),
               out |-> IF ConvertThrows(cfg) THEN <<>>
                       ELSE ConvertSoftBreaksToHard(cfg, text)]
  /\ ProgramUnchanged

CallAnalyzeTextNode(cfg, nd) ==
  /\ probe' = [op |-> "detect", cfg |-> cfg, nd |-> nd,
               softBreakCount |-> CountSoftBreaks(cfg, nd.characters),
               out |-> AnalyzeTextNode(cfg, 1, nd)]
  /\ ProgramUnchanged

\* the issues detect can report, as generateChanges reads them
IssueKinds ==
  {Issue("auto-width", 90, <<>>), Issue("edge-breaking", 70, <<>>),
   Issue("soft-break", 80, <<>>)}

\* the longest enumerated issue list
MaxIssues == 2

SynthesizeConfigs ==
  {TextConfig(<< <<LSEP>> >>, 90), TextConfig(<< <<LatinA, LatinA>> >>, 90)}

SynthesizeNodes ==
  {[TextNode(text, mode, <<Font("Inter", "Regular")>>, FALSE) EXCEPT !.width = 32] :
     text \in Seqs({HiraganaA, LF, LSEP, LatinA}, MaxLen - 1), mode \in ResizeModes}

CallGenerateChanges(cfg, nd, issues) ==
  /\ probe' = [op |-> "synthesize", cfg |-> cfg, nd |-> nd, issues |-> issues,
               out |-> GenerateChanges(cfg, nd.characters, issues, nd)]
  /\ ProgramUnchanged

BreakPatternConfigs ==
  {TextConfig(chars, 90) :
     chars \in {<< <<LSEP>> >>, << <<Dot>> >>, << <<Hyphen>> >>,
                << <<Hyphen>>, <<LatinA>> >>, << <<LatinA, LatinA>> >>}}

BreakPatternTexts == Seqs({LatinA, SP, LF, LSEP, Hyphen, Dot}, MaxLen - 1)

\* the pattern is built and a text is split with it
CallSplitByBreakPattern(cfg, text) ==
  /\ probe' = [op |-> "split", cfg |-> cfg, text |-> text,
               threw |-> ClassThrows(ClassAtoms(cfg), 1),
               class |-> BreakClass(cfg),
               out |-> SplitByClass(text, BreakClass(cfg))]
  /\ ProgramUnchanged

HalfKatakanaA == 65393
FullwidthA == 65313
LatinEAcute == 233

WidthTexts ==
  Seqs({HiraganaA, Kuten, FullwidthA, LatinA, HalfKatakanaA, LatinEAcute}, MaxLen - 1)
    \cup {Hiragana(10)}

\* fontWidthMultiplier, in percent
WidthConfigs ==
  {[TextConfig(<< <<LSEP>> >>, 90) EXCEPT !.fontWidthMultiplier = m] : m \in {100, 120}}

FontSizes == {10, DefaultFontSize}

CallEstimateTextWidth(cfg, text, fontSize) ==
  /\ probe' = [op |-> "width", cfg |-> cfg, text |-> text, fontSize |-> fontSize,
               out |-> EstimateTextWidth(cfg, text, fontSize)]
  /\ ProgramUnchanged

WrapTexts == Seqs({HiraganaA, LatinA, SP, LF}, MaxLen)

WrapWidths == {16, 32}

CallSimulateWordWrap(cfg, text, containerWidth) ==
  /\ probe' = [op |-> "wrap", cfg |-> cfg, text |-> text,
               containerWidth |-> containerWidth,
               out |-> SimulateWordWrap(cfg, text, containerWidth, DefaultFontSize)]
  /\ ProgramUnchanged

\* ---- loadConfig
\* a stored or default value: a number n (ratios in percent), a string
\* spelling n, or an array whose one element is n (n = 0: the empty array)
Value(type, n) == [type |-> type, n |-> n]

ConfigFields == {"minCharacters", "lineBreakThreshold", "softBreakChars",
                 "fontWidthMultiplier"}

DEFAULT_CONFIG ==
  [minCharacters |-> Value("number", 20), lineBreakThreshold |-> Value("number", 90),
   softBreakChars |-> Value("array", LSEP), fontWidthMultiplier |-> Value("number", 100)]

\* what clientStorage may hold for a field: a good value, a value of another
\* type, a value of the right type that makes no sense
StoredValues(field) ==
  IF field = "softBreakChars"
  THEN {Value("array", 8203), Value("string", LSEP), Value("array", 0)}
  ELSE {Value("number", 50), Value("string", 50), Value("number", -1)}

StoredBlobs ==
  UNION {{blob \in [fields -> UNION {StoredValues(f) : f \in ConfigFields}] :
            \A f \in fields : blob[f] \in StoredValues(f)} :
         fields \in SUBSET ConfigFields}

\* savedConfig ? { ...DEFAULT_CONFIG, ...savedConfig } : DEFAULT_CONFIG, and
\* DEFAULT_CONFIG when getAsync rejects
LoadConfig(hasSaved, savedConfig, rejects) ==
  IF rejects \/ ~hasSaved THEN DEFAULT_CONFIG
  ELSE [f \in ConfigFields |->
          IF f \in DOMAIN savedConfig THEN savedConfig[f] ELSE DEFAULT_CONFIG[f]]

CallLoadConfig(hasSaved, savedConfig, rejects) ==
  /\ hasSaved \/ savedConfig = <<>>
  /\ probe' = [op |-> "load", hasSaved |-> hasSaved, savedConfig |-> savedConfig,
               rejects |-> rejects, threw |-> FALSE,
               out |-> LoadConfig(hasSaved, savedConfig, rejects)]
  /\ ProgramUnchanged

\* a call is made on the plugin as constructed
\* the blocks a scan does not skip
RescanNodes ==
  {nd \in DetectNodes : ~nd.hasMissingFont /\ ~nd.locked /\ nd.visible}

\* scan, apply, scan of one block: analyzeTextNode, the changes processNodes
\* generates from the result, applyChangesToNode's writes with the fonts of
\* the block loaded, and analyzeTextNode of the block as it is then
CallScanApplyScan(cfg, nd) ==
  LET first == AnalyzeTextNode(cfg, 1, nd)
      changes == GenerateChanges(cfg, first.originalText, first.issues, nd)
      applied == ApplyWrites(nd, changes, {nd.fonts[k] : k \in 1..Len(nd.fonts)})
  IN /\ probe' = [op |-> "rescan", cfg |-> cfg, nd |-> nd, first |-> first,
                  changes |-> changes, applied |-> applied,
                  second |-> AnalyzeTextNode(cfg, 1, applied.node)]
     /\ ProgramUnchanged

PairwiseTexts == Seqs({HiraganaA, Kuten, LF, SP}, PairwiseLen)

CallPairwiseRemoveLineBreaks(text) ==
  /\ probe' = [op |-> "pairwise", text |-> text, out |-> PairwiseRemoveLineBreaks(text)]
  /\ ProgramUnchanged

Fresh == probe = NoProbe

TextNext ==
  \/ Fresh /\ \E cfg \in RejoinConfigs, text \in RejoinTexts, w \in ContainerWidths :
                CallRemoveLineBreaks(cfg, text, w)
  \/ Fresh /\ \E line1 \in CombineTexts, line2 \in CombineTexts :
                CallCombineLines(line1, line2)
  \/ Fresh /\ \E cfg \in ConvertConfigs, text \in ConvertTexts :
                CallConvertSoftBreaks(cfg, text)
  \/ Fresh /\ \E cfg \in DetectConfigs, nd \in DetectNodes :
                CallAnalyzeTextNode(cfg, nd)
  \/ Fresh /\ \E cfg \in SynthesizeConfigs, nd \in SynthesizeNodes,
                   issues \in Seqs(IssueKinds, MaxIssues) :
                CallGenerateChanges(cfg, nd, issues)
  \/ Fresh /\ \E cfg \in BreakPatternConfigs, text \in BreakPatternTexts :
                CallSplitByBreakPattern(cfg, text)
  \/ Fresh /\ \E cfg \in WidthConfigs, text \in WidthTexts, fontSize \in FontSizes :
                CallEstimateTextWidth(cfg, text, fontSize)
  \/ Fresh /\ \E text \in WrapTexts, w \in WrapWidths :
                CallSimulateWordWrap(TextConfig(<< <<LSEP>> >>, 90), text, w)
  \/ Fresh /\ \E hasSaved \in BOOLEAN, savedConfig \in StoredBlobs, rejects \in BOOLEAN :
                CallLoadConfig(hasSaved, savedConfig, rejects)
  \/ Fresh /\ \E cfg \in DetectConfigs, nd \in RescanNodes : CallScanApplyScan(cfg, nd)
  \/ Fresh /\ \E text \in PairwiseTexts : CallPairwiseRemoveLineBreaks(text)

TextSpec == Init /\ [][TextNext]_vars

\* ------------------------------------------------------------ the caches of the refactored revision
\* SharedUtilities, TextWidthCalculator and RegexPatternCache, and
\* getBatchProcessor, which keeps one BatchProcessor for as long as the
\* configuration of the commands stays the same.  A cache is a JavaScript
\* Map: a sequence of entries in the order of insertion.  Widths are in
\* ten-thousandths of a pixel: font size x multiplier in percent x weight in
\* hundredths.

\* the model's sizes of the caches (CACHE_LIMITS.MEASUREMENT is 500,
\* CACHE_LIMITS.CHARACTER 200, RegexPatternCache.maxSize 10 in the source)
MeasurementLimit == 2
CharacterLimit == 2
PatternLimit == 2
\* texts up to this length are memoized (100 in the source)
MaxCachedLength == 3
\* commands and calls of one run
MaxCommands == 2
MaxCalls == 3

Underscore == 95
Bar == 124

RECURSIVE DecimalDigits(_)
\* String(n) of a non-negative integer
DecimalDigits(n) ==
  IF n < 10 THEN <<48 + n>> ELSE DecimalDigits(n \div 10) \o <<48 + (n % 10)>>

\* `${text}_${fontSize}`
CacheKey(text, fontSize) == text \o <<Underscore>> \o DecimalDigits(fontSize)

CacheHas(cache, key) == \E k \in 1..Len(cache) : cache[k].key = key

CacheGet(cache, key) == (CHOOSE k \in 1..Len(cache) : cache[k].key = key)

\* Map.prototype.set: a key already present keeps its place
CacheSet(cache, key, value) ==
  IF CacheHas(cache, key)
  THEN [k \in 1..Len(cache) |->
          IF cache[k].key = key THEN [key |-> key, value |-> value] ELSE cache[k]]
  ELSE Append(cache, [key |-> key, value |-> value])

\* delete of cache.keys().next().value, which `if (firstKey)` skips for ''
DeleteFirst(cache) ==
  IF cache # <<>> /\ cache[1].key # <<>> THEN Tail(cache) ELSE cache

AddToCache_NoEviction(cache, key, value, limit) == CacheSet(cache, key, value)

AddToCache(cache, key, value, limit) ==
  CacheSet(IF Len(cache) >= limit THEN DeleteFirst(cache) ELSE cache, key, value)

CalcIsFullWidthCharacter(c) ==
  \/ (c >= 12352 /\ c <= 12447) \/ (c >= 12448 /\ c <= 12543)
  \/ (c >= 19968 /\ c <= 40879) \/ (c >= 13312 /\ c <= 19903)
  \/ (c >= 65280 /\ c <= 65519) \/ (c >= 12288 /\ c <= 12351)

IsPunctuation(c) ==
  c \in {65281, 65311, 12290, 12289, 65292, 65294, 65306, 65307, 12300, 12301,
         12302, 12303, 65288, 65289, 12304, 12305, 12296, 12297, 12298, 12299,
         12308, 12309, 65339, 65341, 65371, 65373}

\* CHARACTER_WIDTH_MAP, 0 for a character it does not hold
SpecialWidth(c) ==
  CASE c \in {8364, 165} -> 60
    [] c \in {163, 177, 215, 247, 8800, 8804, 8805, 167, 182} -> 50
    [] c \in {169, 174, 8482, 8230, 8212} -> 70
    [] c \in {176, 8220, 8221} -> 35
    [] c \in {8211, 8224, 8225} -> 40
    [] c \in {8216, 8217} -> 20
    [] c = 8226 -> 30
    [] c = 8240 -> 90
    [] OTHER -> 0

EstimateLatinCharacterWidth(c) ==
  IF c >= 48 /\ c <= 57 THEN (IF c = 49 THEN 32 ELSE 53)
  ELSE IF c >= 65 /\ c <= 90
  THEN (IF c \in {77, 87} THEN 85 ELSE IF c = 73 THEN 32 ELSE 68)
  ELSE IF c >= 97 /\ c <= 122
  THEN (IF c \in {105, 108} THEN 27 ELSE IF c \in {116, 102} THEN 37
        ELSE IF c \in {109, 119} THEN 75 ELSE 53)
  ELSE CASE c \in {32, 46, 44, 58, 59} -> 27
         [] c = 33 -> 25
         [] c = 45 -> 37
         [] c \in {40, 41} -> 30
         [] c = 64 -> 80
         [] c = 37 -> 75
         [] c = 38 -> 65
         [] OTHER -> 48

EstimateUnknownCharacterWidth(c) ==
  IF c <= 126 THEN (IF c >= 32 THEN EstimateLatinCharacterWidth(c) ELSE 53)
  ELSE IF c <= 383 THEN 58
  ELSE IF c >= 8192 /\ c <= 8303 THEN 43
  ELSE IF c >= 8352 /\ c <= 8399 THEN 63
  ELSE IF c >= 8448 /\ c <= 8527 THEN 73
  ELSE 53

\* baseMultiplier is this.config.fontWidthMultiplier || 1.0
GetFallbackCharacterWidth(cfg, c, fontSize) ==
  fontSize * BaseMultiplier(cfg)
    * (IF CalcIsFullWidthCharacter(c) THEN (IF IsPunctuation(c) THEN 95 ELSE 100)
       ELSE IF SpecialWidth(c) # 0 THEN SpecialWidth(c)
       ELSE EstimateUnknownCharacterWidth(c))

\* new TextWidthCalculator(config), new RegexPatternCache()
SharedUtilities(config) ==
  [config |-> config, measurementCache |-> <<>>, characterWidthCache |-> <<>>,
   regexCache |-> <<>>]

\* measureActualCharacterWidth: the width and the character cache after it
MeasureActualCharacterWidth(config, cache, c, fontSize) ==
  LET key == CacheKey(<<c>>, fontSize)
  IN IF CacheHas(cache, key)
     THEN [width |-> cache[CacheGet(cache, key)].value, cache |-> cache]
     ELSE LET width == GetFallbackCharacterWidth(config, c, fontSize)
          IN [width |-> width,
              cache |-> AddToCache(cache, key, width, CharacterLimit)]

RECURSIVE MeasureFrom(_, _, _, _, _, _)
\* the loop of estimateTextWidth over the characters, from character i
MeasureFrom(config, cache, text, fontSize, i, totalWidth) ==
  IF i > Len(text) THEN [width |-> totalWidth, cache |-> cache]
  ELSE LET m == MeasureActualCharacterWidth(config, cache, text[i], fontSize)
           sum == totalWidth + m.width
       IN IF sum >= 0 /\ Len(m.cache) >= 0   \* always: evaluated here, not at the end
          THEN MeasureFrom(config, m.cache, text, fontSize, i + 1, sum)
          ELSE [width |-> sum, cache |-> m.cache]

\* estimateTextWidth on the utilities u: what it returns, whether the value
\* came from the cache, and the utilities after it
CachedEstimateTextWidth(u, text, fontSize) ==
  LET key == CacheKey(text, fontSize)
  IN IF Len(text) <= MaxCachedLength /\ CacheHas(u.measurementCache, key)
     THEN [out |-> u.measurementCache[CacheGet(u.measurementCache, key)].value,
           hit |-> TRUE, utils |-> u]
     ELSE LET m == MeasureFrom(u.config, u.characterWidthCache, text, fontSize, 1, 0)
          IN [out |-> m.width, hit |-> FALSE,
              utils |-> [u EXCEPT
                 !.characterWidthCache = m.cache,
                 !.measurementCache =
                    IF Len(text) <= MaxCachedLength
                    THEN AddToCache(@, key, m.width, MeasurementLimit) ELSE @]]

\* ['\n', ...softBreakChars].join('|')
PatternKey(softBreakChars) ==
  LET RECURSIVE Joined(_)
      Joined(strs) == IF strs = <<>> THEN <<>>
                      ELSE <<Bar>> \o Head(strs) \o Joined(Tail(strs))
  IN <<LF>> \o Joined(softBreakChars)

\* getBreakPattern: the cache after it; the pattern is kept as its atoms
GetBreakPattern(cache, softBreakChars) ==
  LET key == PatternKey(softBreakChars)
  IN IF CacheHas(cache, key) THEN cache
     ELSE LET added == CacheSet(cache, key, <<LF>> \o Flatten(softBreakChars))
          IN IF Len(added) > PatternLimit THEN DeleteFirst(added) ELSE added

IsConfigChanged_MultiplierIgnored(oldConfig, newConfig) ==
  \/ oldConfig.minCharacters # newConfig.minCharacters
  \/ oldConfig.lineBreakThreshold # newConfig.lineBreakThreshold
  \/ oldConfig.softBreakChars # newConfig.softBreakChars

IsConfigChanged(oldConfig, newConfig) ==
  \/ oldConfig.minCharacters # newConfig.minCharacters
  \/ oldConfig.lineBreakThreshold # newConfig.lineBreakThreshold
  \/ oldConfig.fontWidthMultiplier # newConfig.fontWidthMultiplier
  \/ oldConfig.softBreakChars # newConfig.softBreakChars

\* msg.config of the commands
CacheConfigs ==
  WidthConfigs \cup {[TextConfig(<< <<LSEP>> >>, 90) EXCEPT !.minCharacters = 20]}

\* handleScan / handleApplySelected: getBatchProcessor(config) makes a new
\* processor, with caches of its own, only when there is none or the
\* configuration changed; the command then works with that processor
CacheCommand(kind, cfg) ==
  /\ Len(tasks) < MaxCommands
  /\ LET fresh == currentProcessor = 0
                    \/ IsConfigChanged(procs[currentProcessor].config, cfg)
         p == IF fresh THEN Len(procs) + 1 ELSE currentProcessor
     IN /\ procs' = IF fresh THEN Append(procs, SharedUtilities(cfg)) ELSE procs
        /\ currentProcessor' = p
        /\ tasks' = Append(tasks, [kind |-> kind, config |-> cfg, proc |-> p])
  /\ UNCHANGED <<doc, hostFonts, isProcessing, scannedNodeIds, uiResults, faults,
                 lastApply, probe>>

Calls == IF probe = NoProbe THEN 0 ELSE probe.calls

EstimateTexts == {<<HiraganaA>>, <<HiraganaA, LatinA>>, Hiragana(MaxCachedLength),
                  Hiragana(MaxCachedLength + 1)}

\* the analysis or the processing of command t asks for a width
CacheEstimateTextWidth(t, text, fontSize) ==
  /\ Calls < MaxCalls
  /\ LET p == tasks[t].proc
         r == CachedEstimateTextWidth(procs[p], text, fontSize)
     IN /\ procs' = [procs EXCEPT ![p] = r.utils]
        /\ probe' = [op |-> "estimate", calls |-> Calls + 1, task |-> t,
                     text |-> text, fontSize |-> fontSize, hit |-> r.hit,
                     out |-> r.out, before |-> procs[p].measurementCache,
                     after |-> r.utils.measurementCache,
                     key |-> CacheKey(text, fontSize), limit |-> MeasurementLimit]
  /\ UNCHANGED <<doc, hostFonts, isProcessing, currentProcessor, scannedNodeIds,
                 tasks, uiResults, faults, lastApply>>

PatternInputs == {<< <<LSEP>> >>, << <<LatinA>> >>, << <<LSEP>>, <<LatinA>> >>}

\* getBreakPattern(softBreakChars) on the utilities of processor p
CacheGetBreakPattern(p, softBreakChars) ==
  /\ Calls < MaxCalls
  /\ procs' = [procs EXCEPT ![p].regexCache = GetBreakPattern(@, softBreakChars)]
  /\ probe' = [op |-> "pattern", calls |-> Calls + 1, proc |-> p,
               before |-> procs[p].regexCache,
               after |-> GetBreakPattern(procs[p].regexCache, softBreakChars),
               key |-> PatternKey(softBreakChars), limit |-> PatternLimit]
  /\ UNCHANGED <<doc, hostFonts, isProcessing, currentProcessor, scannedNodeIds,
                 tasks, uiResults, faults, lastApply>>

CacheNext ==
  \/ \E kind \in {"scan", "applySelected"}, cfg \in CacheConfigs : CacheCommand(kind, cfg)
  \/ \E t \in 1..Len(tasks), text \in EstimateTexts, fontSize \in FontSizes :
       CacheEstimateTextWidth(t, text, fontSize)
  \/ \E p \in 1..Len(procs), chars \in PatternInputs : CacheGetBreakPattern(p, chars)

CacheSpec == Init /\ [][CacheNext]_vars

\* ------------------------------------------------------------ properties
TaskIds == 1..Len(tasks)

ResultNodes(results) == [k \in 1..Len(results) |-> results[k].node]

IsPrefix(a, b) == Len(a) <= Len(b) /\ SubSeq(b, 1, Len(a)) = a

\* C1: once a cancel was handled while a batch was in flight, that batch
\* starts no block it had not started yet, whatever commands follow.
C1_NoBlockStartedAfterCancel ==
  \A t \in TaskIds : ~tasks[t].lateStart

C3_OneBatchAndFlagAgree ==
  /\ Cardinality({t \in TaskIds : InFlight(t)}) <= 1
  /\ isProcessing <=> (\E t \in TaskIds : InFlight(t))

\* C4: a returned analyzeNodes call has exactly one result per block it
\* analysed, in input order.
C4_OneResultPerAnalysedBlock ==
  \A t \in TaskIds :
    (tasks[t].kind = "scan" /\ tasks[t].outcome = "ok") =>
      ResultNodes(tasks[t].results) = tasks[t].started

\* C5: when analysing a block throws, an error result without issues is
\* recorded for it and the call does not fail.
C5_AnalysisErrorIsContained ==
  \A t \in TaskIds :
    tasks[t].kind = "scan" =>
      \A id \in tasks[t].threw :
        /\ tasks[t].outcome # "error"
        /\ \E k \in 1..Len(tasks[t].results) :
             /\ tasks[t].results[k].node = id
             /\ tasks[t].results[k].issues = <<>>
             /\ tasks[t].results[k].estimatedChanges = "Analysis error"

\* the item of a suspended or finished processNodes call at position n of its
\* processable list was started
StartedAt(task, n) == \E k \in 1..Len(task.started) : task.started[k] = task.work[n]

\* C6: a block of processNodes whose font load or mutation failed has a failed
\* result, the call did not throw, and a call that ran to its end without
\* being cancelled attempted every validated block.
C6_ItemFailureIsContained ==
  \A t \in TaskIds :
    tasks[t].kind = "applyAll" =>
      /\ \A id \in tasks[t].threw :
           /\ tasks[t].outcome # "error"
           /\ \E k \in 1..Len(tasks[t].results) :
                tasks[t].results[k].node = id /\ ~tasks[t].results[k].success
      /\ (tasks[t].outcome = "ok" /\ ~tasks[t].stopped) =>
           \A n \in 1..Len(tasks[t].work) : StartedAt(tasks[t], n)

\* a block failed and a later block of the same call was applied
C6_Witness ==
  \E t \in TaskIds :
    /\ tasks[t].kind = "applyAll" /\ tasks[t].outcome = "ok"
    /\ \E a, b \in 1..Len(tasks[t].results) :
         /\ a < b
         /\ tasks[t].results[a].node \in tasks[t].threw
         /\ tasks[t].results[b].success

MissingFontFailures(results) ==
  {k \in 1..Len(results) :
     ~results[k].success /\ results[k].error = "Missing font - cannot process"}

\* C7 as stated: after a scan of N blocks of which k miss their font,
\* processNodes returns N results, exactly k of them missing-font failures.
C7_OneResultPerScannedBlock ==
  \A t \in TaskIds :
    (tasks[t].kind = "applyAll" /\ tasks[t].outcome = "ok" /\ ~tasks[t].stopped) =>
      /\ Len(tasks[t].results) = Len(tasks[t].analysis)
      /\ Cardinality(MissingFontFailures(tasks[t].results))
           = Cardinality({k \in 1..Len(tasks[t].analysis) :
                            doc[tasks[t].analysis[k].node].hasMissingFont})

\* C7 amended: processNodes returns results only for blocks whose scan result
\* carries issues; a block that missed its font at the scan carries none and
\* gets no result at all.
C7_NoResultForFontlessBlock ==
  \A t \in TaskIds :
    tasks[t].kind = "applyAll" =>
      \A k \in 1..Len(tasks[t].results) :
        /\ ~doc[tasks[t].results[k].node].hasMissingFont
        /\ LET a == FindAnalysis(tasks[t].analysis, tasks[t].results[k].node)
           IN a # 0 /\ tasks[t].analysis[a].issues # <<>>

\* an apply-all ran to its end on scan results that include a block without
\* its font
C7_Witness ==
  \E t \in TaskIds :
    /\ tasks[t].kind = "applyAll" /\ tasks[t].outcome = "ok" /\ ~tasks[t].stopped
    /\ \E k \in 1..Len(tasks[t].analysis) :
         doc[tasks[t].analysis[k].node].hasMissingFont
    /\ Len(tasks[t].analysis) = Len(InitialDocument)
    /\ Len(tasks[t].results) = Len(tasks[t].analysis) - 1

\* C8: applyChangesToNode reaches its writes only when every font of the
\* block has been loaded by the host.
C8_WritesOnlyAfterEveryFontLoaded ==
  (lastApply.node # 0 /\ (lastApply.changes.hasResize \/ lastApply.changes.hasText))
    => lastApply.fontsLoaded

\* C9: when applyChangesToNode writes both, the resize mode is already the
\* new one when the content is written.
C9_ResizeBeforeContent ==
  (lastApply.wroteResize /\ lastApply.wroteText) =>
    lastApply.modeAtTextWrite = lastApply.changes.newAutoResize

\* both were written and the resize mode changed
C9_Witness ==
  /\ lastApply.wroteResize /\ lastApply.wroteText
  /\ lastApply.before # lastApply.changes.newAutoResize

\* C10: a batch that failed outside the per-item boundary still hands over
\* the results it had.
C10_FailureCarriesResults ==
  \A t \in TaskIds :
    tasks[t].outcome = "error" => tasks[t].delivered = tasks[t].results

\* ------------------------------------------------------------ properties of the text functions
HardLines(text) == SplitByClass(text, {LF})

EndsInSentenceMark(line) ==
  Trim(line) # <<>> /\ Trim(line)[Len(Trim(line))] \in {12290, 65281, 65311}

\* C11: for a text every hard-break line of which ends, once trimmed, in one
\* of the marks 。 ！ ？, rejoin returns the text unchanged.
C11_SentenceLinesUnchanged ==
  probe.op = "rejoin" =>
    ((\A i \in 1..Len(HardLines(probe.text)) :
         EndsInSentenceMark(HardLines(probe.text)[i]))
       => probe.out = probe.text)

\* the lines rejoin works on, and the rule of the claim for the break after
\* line i, written on the widths themselves
RejoinLines == SplitByClass(probe.text, BreakClass(probe.cfg))

BreakKept(i) ==
  \/ EndsInSentenceMark(RejoinLines[i])
  \/ EstimateTextWidth(probe.cfg, Trim(RejoinLines[i]), DefaultFontSize) * 100
       < probe.cfg.lineBreakThreshold * probe.containerWidth * 1000

RejoinApplies ==
  probe.op = "rejoin" /\ Len(probe.text) >= probe.cfg.minCharacters

IsSoftBreakChar(cfg, c) == c \in CharsOf(cfg.softBreakChars)

RECURSIVE SoftBreaksIn(_, _)
SoftBreaksIn(cfg, text) ==
  IF text = <<>> THEN <<>>
  ELSE (IF IsSoftBreakChar(cfg, Head(text)) THEN <<Head(text)>> ELSE <<>>)
       \o SoftBreaksIn(cfg, Tail(text))

\* C13: rejoin leaves the soft breaks where they are: the result holds the
\* same configured soft-break characters, in the same number and order, as
\* the text.
C13_SoftBreaksUntouched ==
  probe.op = "rejoin" =>
    SoftBreaksIn(probe.cfg, probe.out) = SoftBreaksIn(probe.cfg, probe.text)

\* C14: combineLines(a, b) trims a on the right and b on the left; when one
\* of the two is then empty the result is their concatenation; when the last
\* character of a and the first of b are both CJK (the ranges of the
\* full-width class) nothing is put between them; in every other case
\* exactly one space is.
C14_SeparatorByScript ==
  probe.op = "combine" =>
    LET a == TrimEnd(probe.line1)
        b == TrimStart(probe.line2)
    IN probe.out =
         IF a = <<>> \/ b = <<>> THEN a \o b
         ELSE IF IsFullWidthCharacter(a[Len(a)]) /\ IsFullWidthCharacter(b[1])
              THEN a \o b
              ELSE a \o <<SP>> \o b

\* C15: convert is idempotent: converting the result of a conversion again,
\* with the same soft-break strings, changes nothing.
C15_ConvertIdempotent ==
  (probe.op = "convert" /\ ~probe.threw) =>
    ConvertSoftBreaksToHard(probe.cfg, probe.out) = probe.out

\* the text with every occurrence of each of the strings, taken as it is
\* written, replaced by a hard break
RECURSIVE EveryOccurrenceReplaced(_, _)
EveryOccurrenceReplaced(text, strs) ==
  IF strs = <<>> THEN text
  ELSE EveryOccurrenceReplaced(ReplaceLiteral(text, Head(strs), 1), Tail(strs))

\* C16: convert never throws, and its result is the text with every
\* occurrence of every configured soft-break string replaced by the hard
\* break and every other character unchanged, also when a soft-break string
\* is a regex metacharacter.
C16_ConvertReplacesLiterally ==
  probe.op = "convert" =>
    /\ ~probe.threw
    /\ probe.out = EveryOccurrenceReplaced(probe.text, probe.cfg.softBreakChars)

\* ------------------------------------------------------------ properties of detect
Skipped ==
  \/ probe.nd.hasMissingFont
  \/ probe.nd.locked
  \/ ~probe.nd.visible
  \/ Len(probe.nd.characters) < probe.cfg.minCharacters

IssuesOfType(type) ==
  {k \in 1..Len(probe.out.issues) : probe.out.issues[k].type = type}

\* C17: detect returns no issue for a block whose font is missing, that is
\* locked, that is not visible, or whose content is shorter than
\* minCharacters.
C17_SkippedBlockHasNoIssue ==
  (probe.op = "detect" /\ Skipped) => probe.out.issues = <<>>

\* a locked auto-width block with a hard break, long enough to be analysed,
\* was passed to detect and nothing was reported
C17_Witness ==
  /\ probe.op = "detect"
  /\ probe.nd.textAutoResize = "WIDTH_AND_HEIGHT"
  /\ Contains(probe.nd.characters, LF)
  /\ ~probe.nd.hasMissingFont /\ probe.nd.visible
  /\ probe.nd.locked
  /\ Len(probe.nd.characters) >= probe.cfg.minCharacters
  /\ probe.out.issues = <<>>

\* C18: for a block that is not skipped, with the auto-width detection
\* enabled, detect reports an AutoWidth issue exactly when the resize mode is
\* WIDTH_AND_HEIGHT and the content holds a hard break.
C18_AutoWidthIffAutoSizedWithBreak ==
  (probe.op = "detect" /\ ~Skipped /\ "auto-width" \in probe.cfg.enabledDetections) =>
    (IssuesOfType("auto-width") # {}
       <=> (probe.nd.textAutoResize = "WIDTH_AND_HEIGHT"
            /\ Contains(probe.nd.characters, LF)))

\* the visual lines of the word-wrap simulation, and the test of the claim on
\* one of them, written on the widths themselves
VisualLines ==
  SimulateWordWrap(probe.cfg, probe.nd.characters, probe.nd.width, probe.nd.fontSize)

AtContainerEdge(line) ==
  /\ Trim(line) # <<>>
  /\ EstimateTextWidth(probe.cfg, Trim(line), probe.nd.fontSize) * 100
       >= probe.cfg.lineBreakThreshold * probe.nd.width * 1000

\* C19: for a block that is not skipped, detect reports at most one
\* EdgeBreak issue, and reports it exactly when the resize mode is NONE
\* (fixed) or HEIGHT and some non-blank visual line of the word-wrap
\* simulation has estimated width over container width at or above
\* lineBreakThreshold.
C19_EdgeBreakIffLineAtEdge ==
  (probe.op = "detect" /\ ~Skipped /\ "edge-breaking" \in probe.cfg.enabledDetections) =>
    /\ Cardinality(IssuesOfType("edge-breaking")) <= 1
    /\ IssuesOfType("edge-breaking") # {}
         <=> /\ probe.nd.textAutoResize \in {"NONE", "HEIGHT"}
             /\ \E i \in 1..Len(VisualLines) : AtContainerEdge(VisualLines[i])

\* an auto-height block whose content wraps into two visual lines was
\* reported for the first of them, which lies exactly at the threshold
C19_Witness ==
  /\ probe.op = "detect" /\ ~Skipped
  /\ probe.nd.textAutoResize = "HEIGHT"
  /\ probe.nd.characters = <<HiraganaA, SP, HiraganaA>>
  /\ probe.cfg.lineBreakThreshold = 50
  /\ Len(VisualLines) = 2
  /\ Cardinality(IssuesOfType("edge-breaking")) = 1

\* the positions of the content that hold a configured soft-break character
SoftBreakPositions ==
  {i \in 1..Len(probe.nd.characters) :
     IsSoftBreakChar(probe.cfg, probe.nd.characters[i])}

\* C20: for a block that is not skipped, detect reports a SoftBreak issue
\* exactly when paragraphSpacing is 0 and the content holds a configured
\* soft-break character, and the count it reports is the number of
\* occurrences of configured soft-break characters in the content (2 for
\* "A<LSEP>B<LSEP>C").
C20_SoftBreakIssueAndCount ==
  (probe.op = "detect" /\ ~Skipped /\ "soft-break" \in probe.cfg.enabledDetections) =>
    /\ IssuesOfType("soft-break") # {}
         <=> (probe.nd.paragraphSpacing = 0 /\ SoftBreakPositions # {})
    /\ IssuesOfType("soft-break") # {}
         => probe.softBreakCount = Cardinality(SoftBreakPositions)

\* ------------------------------------------------------------ properties of generateChanges
Synthesized == probe.op = "synthesize"

HasIssue(type) == \E k \in 1..Len(probe.issues) : probe.issues[k].type = type

\* the text the block has once the change set is applied
TextAfter == IF probe.out.hasText THEN probe.out.newText ELSE probe.nd.characters

RejoinOf(text) ==
  RemoveLineBreaksJapanesePriority(probe.cfg, text, probe.nd.width, probe.nd.fontSize,
                                   FALSE)

\* C21: for a block in WIDTH_AND_HEIGHT mode generateChanges always sets the
\* new resize mode to HEIGHT and the new text to rejoin(content), whatever
\* the issue list holds; and for any block an AutoWidth issue in the list
\* sets the new resize mode to HEIGHT.
C21_AutoWidthForcesAutoHeight ==
  Synthesized =>
    /\ probe.nd.textAutoResize = "WIDTH_AND_HEIGHT"
         => /\ probe.out.hasResize /\ probe.out.newAutoResize = "HEIGHT"
            /\ TextAfter = RejoinOf(probe.nd.characters)
    /\ HasIssue("auto-width")
         => probe.out.hasResize /\ probe.out.newAutoResize = "HEIGHT"

\* an auto-width block whose list holds a soft-break issue only was given
\* the HEIGHT mode and the rejoined text
C21_Witness ==
  /\ Synthesized
  /\ probe.nd.textAutoResize = "WIDTH_AND_HEIGHT"
  /\ probe.issues = << Issue("soft-break", 80, <<>>) >>
  /\ probe.nd.characters = <<HiraganaA, HiraganaA, LF>>
  /\ probe.out.newAutoResize = "HEIGHT"
  /\ probe.out.newText = <<HiraganaA, HiraganaA>>

IssuesWithConfidence(c) == SelectSeq(probe.issues, LAMBDA issue : issue.confidence = c)

RECURSIVE RemediesApplied(_, _)
RemediesApplied(issues, text) ==
  IF issues = <<>> THEN text
  ELSE RemediesApplied(Tail(issues),
                       IF Head(issues).type = "soft-break"
                       THEN ConvertSoftBreaksToHard(probe.cfg, text)
                       ELSE RejoinOf(text))

\* C22: for a block that is not in WIDTH_AND_HEIGHT mode the synthesized text
\* is what the remedies of the issues give when applied one after another in
\* order of descending confidence, each to the result of the one before:
\* rejoin for AutoWidth and EdgeBreak, convert for SoftBreak.
C22_RemediesInConfidenceOrder ==
  (Synthesized /\ probe.nd.textAutoResize # "WIDTH_AND_HEIGHT") =>
    TextAfter = RemediesApplied(IssuesWithConfidence(90) \o IssuesWithConfidence(80)
                                  \o IssuesWithConfidence(70),
                                probe.nd.characters)

\* an edge-breaking issue listed before a soft-break issue: the conversion
\* was applied first and the rejoin to its result, which differs from the
\* result of the other order
C22_Witness ==
  /\ Synthesized /\ probe.nd.textAutoResize = "HEIGHT"
  /\ probe.issues = << Issue("edge-breaking", 70, <<>>), Issue("soft-break", 80, <<>>) >>
  /\ TextAfter = RejoinOf(ConvertSoftBreaksToHard(probe.cfg, probe.nd.characters))
  /\ TextAfter # ConvertSoftBreaksToHard(probe.cfg, RejoinOf(probe.nd.characters))

\* C23: generateChanges populates newText only when it differs from the
\* content of the block and newAutoResize only when it differs from the
\* resize mode of the block; when nothing differs the change set is empty.
C23_OnlyDifferencesPopulated ==
  Synthesized =>
    /\ probe.out.hasText => probe.out.newText # probe.nd.characters
    /\ probe.out.hasResize => probe.out.newAutoResize # probe.nd.textAutoResize

\* ------------------------------------------------------------ properties of the break pattern
IsConfiguredBreak(c) ==
  \E k \in 1..Len(probe.cfg.softBreakChars) : probe.cfg.softBreakChars[k] = <<c>>

\* C24: the break pattern built for the configured soft-break strings matches
\* the hard break and each configured soft break and nothing else, also when
\* a string holds a regex metacharacter, '-' or more than one character; a
\* text split with it has (hard breaks + soft breaks + 1) lines.
C24_PatternMatchesBreaksOnly ==
  probe.op = "split" =>
    /\ ~probe.threw
    /\ LF \in probe.class
    /\ \A k \in 1..Len(probe.cfg.softBreakChars) :
         /\ Len(probe.cfg.softBreakChars[k]) = 1
         /\ probe.cfg.softBreakChars[k][1] \in probe.class
    /\ \A i \in 1..Len(probe.text) :
         probe.text[i] \in probe.class
           <=> (probe.text[i] = LF \/ IsConfiguredBreak(probe.text[i]))
    /\ Len(probe.out)
         = CountLiteral(probe.text, <<LF>>, 1) + CountSoftBreaks(probe.cfg, probe.text) + 1

\* ------------------------------------------------------------ properties of the widths and of the wrap
\* the weight of the claim, in tenths
WeightOfClaim(c) ==
  IF \/ c \in 12352..12447 \/ c \in 12448..12543 \/ c \in 19968..40879
     \/ c \in 13312..19903 \/ c \in 65280..65519 \/ c \in 12288..12351
  THEN 10
  ELSE IF c \in 32..126 \/ c \in 65377..65439 THEN 5
  ELSE 8

RECURSIVE SumOfWeights(_)
SumOfWeights(text) ==
  IF text = <<>> THEN 0 ELSE WeightOfClaim(Head(text)) + SumOfWeights(Tail(text))

WrapParagraphsOf == SplitByClass(probe.text, BreakClass(probe.cfg))

IsBlank(paragraph) == Trim(paragraph) = <<>>

\* the visual lines of one paragraph that is not blank
LinesOf(paragraph) ==
  WrapWords(probe.cfg, SplitWords(paragraph), <<>>, probe.containerWidth, DefaultFontSize)

NonBlankParagraphs == SelectSeq(WrapParagraphsOf, LAMBDA paragraph : ~IsBlank(paragraph))

\* C26: the word-wrap simulation loses and adds no character: the visual
\* lines of a paragraph that is not blank, concatenated in order, are the
\* paragraph; a blank paragraph gives exactly one empty visual line; so there
\* are at least as many visual lines as paragraphs.
C26_WrapKeepsEveryCharacter ==
  probe.op = "wrap" =>
    /\ \A k \in 1..Len(WrapParagraphsOf) :
         ~IsBlank(WrapParagraphsOf[k])
           => /\ Flatten(LinesOf(WrapParagraphsOf[k])) = WrapParagraphsOf[k]
              /\ \A i \in 1..Len(LinesOf(WrapParagraphsOf[k])) :
                   LinesOf(WrapParagraphsOf[k])[i] # <<>>
    /\ Flatten(probe.out) = Flatten(NonBlankParagraphs)
    /\ Cardinality({i \in 1..Len(probe.out) : probe.out[i] = <<>>})
         = Cardinality({k \in 1..Len(WrapParagraphsOf) : IsBlank(WrapParagraphsOf[k])})
    /\ Len(probe.out) >= Len(WrapParagraphsOf)

\* a text of a blank paragraph and a paragraph with leading whitespace that
\* wraps was simulated: three visual lines for two paragraphs
C26_Witness ==
  /\ probe.op = "wrap"
  /\ probe.text = <<LF, SP, HiraganaA, HiraganaA>>
  /\ probe.containerWidth = 16
  /\ probe.out = << <<>>, <<SP>>, <<HiraganaA, HiraganaA>> >>

Width(line) == EstimateTextWidth(probe.cfg, line, DefaultFontSize)

IsSingleToken(line) ==
  /\ line # <<>>
  /\ \/ \A i \in 1..Len(line) : IsWhitespace(line[i])
     \/ \A i \in 1..Len(line) : ~IsWhitespace(line[i])

NonEmptyTokens(s) == SelectSeq(SplitWords(s), LAMBDA token : token # <<>>)

RECURSIVE TokensOfLines(_)
TokensOfLines(lines) ==
  IF lines = <<>> THEN <<>>
  ELSE NonEmptyTokens(Head(lines)) \o TokensOfLines(Tail(lines))

\* C27: the word-wrap simulation ends, puts every token in exactly one
\* visual line, and every visual line either is at most containerWidth wide
\* or is a single non-empty token; a token starts a new line only when the
\* current line is not empty and would exceed containerWidth with it.
C27_WrapIsGreedy ==
  probe.op = "wrap" =>
    /\ \A i \in 1..Len(probe.out) :
         \/ Width(probe.out[i]) <= probe.containerWidth * 1000
         \/ IsSingleToken(probe.out[i])
    /\ \A k \in 1..Len(WrapParagraphsOf) :
         ~IsBlank(WrapParagraphsOf[k])
           => LET lines == LinesOf(WrapParagraphsOf[k])
              IN /\ TokensOfLines(lines) = NonEmptyTokens(WrapParagraphsOf[k])
                 /\ \A i \in 1..(Len(lines) - 1) :
                      /\ lines[i] # <<>>
                      /\ Width(lines[i] \o NonEmptyTokens(lines[i + 1])[1])
                           > probe.containerWidth * 1000

\* a word wider than the container was put on a line of its own, after a
\* line that it did not fit on
C27_Witness ==
  /\ probe.op = "wrap"
  /\ probe.text = <<LatinA, SP, HiraganaA, HiraganaA>>
  /\ probe.containerWidth = 16
  /\ probe.out = << <<LatinA, SP>>, <<HiraganaA, HiraganaA>> >>

\* ------------------------------------------------------------ properties of loadConfig
ValidStored(field, value) ==
  IF field = "softBreakChars" THEN value.type = "array" /\ value.n # 0
  ELSE IF field = "lineBreakThreshold"
  THEN value.type = "number" /\ value.n > 0 /\ value.n <= 100
  ELSE value.type = "number" /\ value.n > 0

\* C28: loading the configuration never fails; a field that is missing from
\* the stored blob, or stored with the wrong type or an invalid value, has
\* its default value in the loaded configuration, and a valid stored field
\* is kept.
C28_LoadFallsBackPerField ==
  probe.op = "load" =>
    /\ ~probe.threw
    /\ \A f \in ConfigFields :
         probe.out[f] =
           IF /\ probe.hasSaved /\ ~probe.rejects
              /\ f \in DOMAIN probe.savedConfig
              /\ ValidStored(f, probe.savedConfig[f])
           THEN probe.savedConfig[f]
           ELSE DEFAULT_CONFIG[f]

\* ------------------------------------------------------------ properties of the batches, continued
\* C30: when the content of a block was changed between the scan and the
\* apply, processNodes does not overwrite it with text derived from the
\* content of the scan: the text it writes is computed from the content the
\* block has when it is applied.
C30_WritesTextOfCurrentContent ==
  (lastApply.by = "applyAll" /\ lastApply.wroteText) =>
    /\ lastApply.fresh.hasText
    /\ lastApply.changes.newText = lastApply.fresh.newText

\* a block's content and resize mode are the same after the step as before
BlocksUnchanged ==
  \A n \in NodeIds :
    /\ doc'[n].characters = doc[n].characters
    /\ doc'[n].textAutoResize = doc[n].textAutoResize

\* C29: in processSelectedNodes, analysis then processing, a cancel() that
\* comes during the analysis keeps the processing from changing any block.
C29_CancelInAnalysisStopsProcessing ==
  [][(\E t \in 1..Len(tasks) : InFlight(t) /\ tasks[t].cancelledIn = "analysis")
       => BlocksUnchanged]_vars

\* ------------------------------------------------------------ properties of rejoin, continued
\* C31: rejoin is idempotent for a fixed container width, font size and
\* configuration: rejoin(rejoin(t)) = rejoin(t), so that cleaning the line
\* breaks a second time changes nothing.
C31_RejoinIdempotent ==
  probe.op = "rejoin" => probe.again = probe.out

\* the empty lines of a text
EmptyLines(text) == {i \in 1..Len(HardLines(text)) : HardLines(text)[i] = <<>>}

\* C32: rejoin preserves blank lines: the output has as many empty lines as
\* the input, for every text and every threshold in (0, 1]; a blank line
\* between a wide line and the next paragraph is kept.
C32_BlankLinesPreserved ==
  RejoinApplies =>
    Cardinality(EmptyLines(probe.out)) = Cardinality(EmptyLines(probe.text))

\* a text without its hard breaks and its whitespace
Solid(text) == SelectSeq(text, LAMBDA c : c # LF /\ ~IsWhitespace(c))

\* the hard breaks of a text
HardBreaks(text) == Len(HardLines(text)) - 1

\* C33: rejoin loses no text: the last line is always flushed, so the
\* accumulator is empty when the fold ends; the output without hard breaks and
\* whitespace equals the input without hard breaks and whitespace; and the
\* output never has more hard breaks than the input.
C33_NoTextLost ==
  RejoinApplies =>
    /\ ShouldBreakAfter(probe.cfg, RejoinLines, Len(RejoinLines),
                        probe.containerWidth, DefaultFontSize)
    /\ Solid(probe.out) = Solid(probe.text)
    /\ HardBreaks(probe.out) <= HardBreaks(probe.text)

\* the two halves of C33 that do not count breaks
C33_EveryLineFlushed ==
  RejoinApplies =>
    /\ ShouldBreakAfter(probe.cfg, RejoinLines, Len(RejoinLines),
                        probe.containerWidth, DefaultFontSize)
    /\ Solid(probe.out) = Solid(probe.text)

\* ------------------------------------------------------------ properties of scan, apply, scan
\* C34: scan, apply, scan reaches a fixed point: after the change set
\* synthesized for a flagged block was applied successfully, a new analysis of
\* the block with the same configuration reports no issue.
C34_RescanFindsNothing ==
  (probe.op = "rescan" /\ probe.first.issues # <<>> /\ ~probe.applied.threw)
    => probe.second.issues = <<>>

\* ------------------------------------------------------------ properties of failed results
\* the results the step adds to the list of task t
AddedResults(t) ==
  LET old == IF t <= Len(tasks) THEN Len(tasks[t].results) ELSE 0
  IN {k \in 1..Len(tasks'[t].results) : k > old}

\* C35: a block for which processNodes or processIndividualNode records a
\* failed result is left unchanged: the step that records the failure, which
\* is the one that makes the writes of the attempt, changes neither the resize
\* mode nor the content of the block.
C35_FailedBlockUnchanged ==
  [][\A t \in 1..Len(tasks') :
       tasks'[t].kind \in {"applyAll", "applySelected"} =>
         \A k \in AddedResults(t) :
           LET r == tasks'[t].results[k]
           IN ~r.success =>
                /\ doc'[r.node].characters = doc[r.node].characters
                /\ doc'[r.node].textAutoResize = doc[r.node].textAutoResize]_vars

\* ------------------------------------------------------------ properties of the soft-break issue, continued
\* the lines of the analysed content, as getSoftBreakLines splits it
DetectLines == SplitByClass(probe.nd.characters, BreakClass(probe.cfg))

RECURSIVE LengthUpTo(_, _)
\* the characters of the first i lines
LengthUpTo(lines, i) == IF i = 0 THEN 0 ELSE LengthUpTo(lines, i - 1) + Len(lines[i])

\* line i of the content contains a configured soft-break character, or the
\* break that ends it is one
HasSoftBreak(i) ==
  /\ i \in 1..Len(DetectLines)
  /\ \/ \E k \in 1..Len(DetectLines[i]) : IsSoftBreakChar(probe.cfg, DetectLines[i][k])
     \/ /\ LengthUpTo(DetectLines, i) + i <= Len(probe.nd.characters)
        /\ IsSoftBreakChar(probe.cfg,
                           probe.nd.characters[LengthUpTo(DetectLines, i) + i])

\* C36: every emitted SoftBreak issue lists at least one affected line index,
\* and every index it lists denotes a line of the content that contains, or
\* ends at, a configured soft-break character.
C36_SoftBreakIssueListsItsLines ==
  probe.op = "detect" =>
    \A k \in IssuesOfType("soft-break") :
      LET lineNumbers == probe.out.issues[k].lineNumbers
      IN /\ lineNumbers # <<>>
         /\ \A m \in 1..Len(lineNumbers) : HasSoftBreak(lineNumbers[m])

\* ------------------------------------------------------------ properties of the pairwise pass
PairwiseLines == SplitByClass(probe.text, {LF})

\* the breaks of the input between two lines that shouldRemoveLineBreak
\* does not join
BreaksToKeep ==
  {i \in 1..(Len(PairwiseLines) - 1) :
     ~PairwiseShouldRemoveLineBreak(PairwiseLines[i], PairwiseLines[i + 1])}

\* C37: in the pairwise line-join pass of src/textProcessor.js every hard
\* break between two adjacent lines for which shouldRemoveLineBreak holds is
\* removed from the output, the break after a line that was just joined to its
\* predecessor included: the output has no more breaks than the input has
\* breaks to keep, and a run of joinable lines becomes one line.
C37_EveryJoinableBreakRemoved ==
  probe.op = "pairwise" => HardBreaks(probe.out) <= Cardinality(BreaksToKeep)

\* ------------------------------------------------------------ properties of the caches
RECURSIVE SumOfWidths(_, _, _)
\* the width computed afresh: the sum of the widths of the characters
SumOfWidths(cfg, text, fontSize) ==
  IF text = <<>> THEN 0
  ELSE GetFallbackCharacterWidth(cfg, Head(text), fontSize)
         + SumOfWidths(cfg, Tail(text), fontSize)

\* C38: across any sequence of scan and apply-selected commands with varying
\* configurations, a width that estimateTextWidth returns, from the cache or
\* not, is the width computed afresh for the same text and font size under
\* the configuration of the command that asked for it: the cache never serves
\* a value computed under another font-width multiplier, and a hit returns
\* what a miss returns.
C38_CachedWidthIsFreshWidth ==
  probe.op = "estimate" =>
    probe.out = SumOfWidths(tasks[probe.task].config, probe.text, probe.fontSize)

\* the second command came with another multiplier than the first and got a
\* width from the cache
C38_Witness ==
  /\ probe.op = "estimate" /\ probe.hit /\ probe.task = 2
  /\ tasks[1].config.fontWidthMultiplier # tasks[2].config.fontWidthMultiplier

KeysOf(cache) == [k \in 1..Len(cache) |-> cache[k].key]

\* the call of the probe stored a key the cache did not hold
StoredNewKey ==
  /\ probe.op \in {"estimate", "pattern"}
  /\ ~CacheHas(probe.before, probe.key)
  /\ probe.op = "estimate" => Len(probe.text) <= MaxCachedLength

\* C39: after any sequence of estimateTextWidth and getBreakPattern calls the
\* text-width cache holds at most MeasurementLimit entries and the
\* break-pattern cache at most PatternLimit; a full cache that receives a new
\* key loses exactly its oldest key, a cache that is not full loses none; and
\* no text longer than MaxCachedLength is ever stored in the text-width cache.
C39_CachesBoundedOldestEvicted ==
  /\ \A p \in 1..Len(procs) :
       /\ Len(procs[p].measurementCache) <= MeasurementLimit
       /\ Len(procs[p].regexCache) <= PatternLimit
       /\ \A k \in 1..Len(procs[p].measurementCache) :
            \E text \in EstimateTexts, fontSize \in FontSizes :
              /\ Len(text) <= MaxCachedLength
              /\ procs[p].measurementCache[k].key = CacheKey(text, fontSize)
  /\ StoredNewKey =>
       KeysOf(probe.after)
         = (IF Len(probe.before) >= probe.limit
            THEN Tail(KeysOf(probe.before)) ELSE KeysOf(probe.before))
             \o <<probe.key>>
  /\ (probe.op \in {"estimate", "pattern"} /\ ~StoredNewKey) => probe.after = probe.before

\* a full text-width cache received a new key
C39_Witness ==
  /\ StoredNewKey
  /\ probe.op = "estimate"
  /\ Len(probe.before) = MeasurementLimit
  /\ KeysOf(probe.after) = Tail(KeysOf(probe.before)) \o <<probe.key>>
====
